---- MODULE Spec2Model ----
(***************************************************************************)
(* Model of the document-ingestion pipeline of src/App.tsx.                *)
(*                                                                         *)
(* Spec is the Ingestion Coordinator: handleFileChange (one invocation per *)
(* change event of the file input, suspended at each await and resumed by  *)
(* the browser when the read or extraction settles) together with          *)
(* removeFile, over the React state files / error / selectedFileIndices.   *)
(*                                                                         *)
(* JavaScript strings are tuples of one-character strings, so that         *)
(* startsWith, endsWith and toLowerCase are computed character by          *)
(* character.  The literal part of a template string is kept as one        *)
(* element of the tuple.                                                   *)
(*                                                                         *)
(* SpecLines is the reconstruction of the text of one PDF page from its    *)
(* fragments (the body of the page loop of extractPdfText), step by step.  *)
(* SpecPdf is extractPdfText over a whole document, with the route of      *)
(* handleFileChange that awaits it, for one PDF file picked alone.         *)
(* SpecPptx is extractPptxText over an archive, with the route of          *)
(* handleFileChange that awaits it.  SpecOverlap is two change events of   *)
(* the file input whose invocations overlap.  SpecSelect is the selection  *)
(* of uploaded files (toggleFileSelection, selectAllFiles, removeFile).    *)
(* SpecChat is the chat assistant: handleSendChatMessage streaming a reply *)
(* while handleAnalyze and loadFromHistory install a new session.          *)
(***************************************************************************)
EXTENDS Integers, Sequences, FiniteSets, TLC

(* ----------------------------- bounds --------------------------------- *)
\* number of change events of the file input (handleFileChange invocations)
MaxCalls == 2
\* total number of files picked over all change events
MaxPicked == 3
\* number of files of the one change event of SpecWide
MaxBatch == 2
\* number of removeFile clicks
MaxRemovals == 1

(* ------------------------ program constants --------------------------- *)
MAX_FILE_SIZE == 50 * 1024 * 1024

(* --------------------------- JS strings ------------------------------- *)
toLowerChar(ch) ==
    CASE ch = "P" -> "p"
      [] ch = "D" -> "d"
      [] ch = "F" -> "f"
      [] ch = "T" -> "t"
      [] ch = "X" -> "x"
      [] OTHER -> ch

toLowerCase(s) == [i \in 1..Len(s) |-> toLowerChar(s[i])]

startsWith(s, p) == Len(s) >= Len(p) /\ SubSeq(s, 1, Len(p)) = p

endsWith(s, p) == Len(s) >= Len(p) /\ SubSeq(s, Len(s) - Len(p) + 1, Len(s)) = p

\* p occurs in s as a contiguous run of characters
includes(s, p) == \E i \in 0..(Len(s) - Len(p)) : SubSeq(s, i + 1, i + Len(p)) = p

ImagePrefix == <<"i", "m", "a", "g", "e", "/">>
PdfMime == <<"a", "p", "p", "l", "i", "c", "a", "t", "i", "o", "n", "/", "p", "d", "f">>
PptxMime == <<"application/vnd.openxmlformats-officedocument.presentationml.presentation">>
DotPdf == <<".", "p", "d", "f">>
DotPptx == <<".", "p", "p", "t", "x">>

PngMime == ImagePrefix \o <<"p", "n", "g">>
NoMime == <<>>

(* ------------------------- the picked files --------------------------- *)
(* A File of the input: name, type (declared MIME), size, and what the    *)
(* browser and the decoders will make of its bytes:                       *)
(*   good        the read and the decode succeed                          *)
(*   corrupt     the bytes are read, the PDF / zip decoder rejects them   *)
(*   unreadable  the read itself fails (FileReader fires error,           *)
(*               file.arrayBuffer() and JSZip.loadAsync reject)           *)
APng == <<"a", ".", "p", "n", "g">>
BPdf == <<"b", ".", "P", "d", "f">>
CPptx == <<"c", ".", "P", "P", "T", "X">>
DTxt == <<"d", ".", "t", "x", "t">>

FileNames == {APng, BPdf, CPptx, DTxt}
FileTypes == {PngMime, PdfMime, NoMime}
FileSizes == {MAX_FILE_SIZE, MAX_FILE_SIZE + 1}
Healths == {"good", "corrupt", "unreadable"}

File(n, t, s, h) == [name |-> n, type |-> t, size |-> s, health |-> h]

\* every combination of name, type, size and health
FileUniverse == [name : FileNames, type : FileTypes, size : FileSizes, health : Healths]

\* the files of the runs in which change events overlap: one or two per
\* route and per outcome
CoreFiles ==
    { File(APng, PngMime, 1, "good"),
      File(APng, PngMime, 1, "unreadable"),
      File(BPdf, NoMime, MAX_FILE_SIZE, "good"),
      File(BPdf, PdfMime, 1, "corrupt"),
      File(CPptx, NoMime, 1, "good"),
      File(CPptx, NoMime, 1, "corrupt"),
      File(DTxt, NoMime, 1, "good"),
      File(APng, PngMime, MAX_FILE_SIZE + 1, "good") }

(* ----------------------------- state ---------------------------------- *)
VARIABLES
    files,                \* useState<UploadedFile[]>([])
    selectedFileIndices,  \* useState<Set<number>>(new Set())
    error,                \* useState<string | null>(null)
    calls,                \* the invocations of handleFileChange, by call id
    removals,             \* number of removeFile clicks so far
    recon,                \* one page of extractPdfText: items, lines, pageText
    pdf,                  \* one invocation of extractPdfText and its caller
    pptx,                 \* one invocation of extractPptxText and its caller
    chat                  \* the chat assistant: chatMessages and one send

vars == <<files, selectedFileIndices, error, calls, removals, recon, pdf, pptx, chat>>

\* the state of the coordinator, and that of the PDF extractor
ingestVars == <<files, selectedFileIndices, error, calls, removals>>
pdfVars == <<recon, pdf>>
otherVars == <<pptx, chat>>

\* no page is being reconstructed, no document is being extracted
NoRecon == [pc |-> "idle"]
NoPdf == [pc |-> "idle"]
\* no archive is being extracted, the chat assistant is not in use
NoPptx == [pc |-> "idle"]
NoChat == [pc |-> "idle"]

CallIds == 1..MaxCalls

\* the value of the error state: null, or a message
Null == [null |-> TRUE, text |-> <<>>]
Message(m) == [null |-> FALSE, text |-> m]

(* ----------------------- the error messages --------------------------- *)
SizeLimitMsg(file) == <<"File \"">> \o file.name \o <<"\" exceeds the 50MB limit.">>
UnsupportedMsg(file) == <<"Unsupported file type: ">> \o file.name
PdfExtractMsg == <<"Failed to extract text from PDF. The file might be corrupted or complex.">>
PdfFallbackMsg == <<"Failed to parse PDF file.">>
PptxMsg == <<"Failed to parse PPTX file.">>

\* err.message of the rejection of file.arrayBuffer(): whatever the browser
\* puts there, the empty string included
ReadErrorMessages == { <<>>, <<"NotReadableError: the file could not be read">> }

\* err.message || "Failed to parse PDF file."
OrFallback(m) == IF m = <<>> THEN PdfFallbackMsg ELSE m

(* ------------------- results of reads and extractions ----------------- *)
\* reader.result of readAsDataURL: data:<type>;base64,<the bytes, encoded>
DataUrl(file) == <<"data:">> \o file.type \o <<";base64,", "b64(">> \o file.name \o <<")">>
\* the string extractPdfText resolves with
PdfText(file) == <<"pdfText(">> \o file.name \o <<")">>
\* the string extractPptxText resolves with
PptxText(file) == <<"pptxText(">> \o file.name \o <<")">>

(* ----------------------- the UploadedFile records --------------------- *)
ImageRecord(file, base64) ==
    [name |-> file.name, type |-> file.type, data |-> base64, preview |-> base64]

\* a faulty variant: the document record carries its text as preview too
PdfRecordWithPreview(file, text) ==
    [name |-> file.name, type |-> PdfMime, data |-> text, preview |-> text]

PdfRecord(file, text) ==
    [name |-> file.name, type |-> PdfMime, data |-> text]

PptxRecord(file, text) ==
    [name |-> file.name, type |-> PptxMime, data |-> text]

(* --------------------- classification of one file --------------------- *)
\* a faulty variant: the ceiling itself is rejected (>= for >)
ExceedsLimitInclusive(file) == file.size >= MAX_FILE_SIZE

\* file.size > MAX_FILE_SIZE
ExceedsLimit(file) == file.size > MAX_FILE_SIZE

\* a faulty variant: the extensions are compared without toLowerCase
ClassifyCaseSensitive(file) ==
    IF startsWith(file.type, ImagePrefix) THEN "image"
    ELSE IF endsWith(file.name, DotPdf) \/ file.type = PdfMime THEN "pdf"
    ELSE IF endsWith(file.name, DotPptx) THEN "pptx"
    ELSE "unsupported"

\* the if / else-if chain of the loop body, for a file within the ceiling
Classify(file) ==
    IF startsWith(file.type, ImagePrefix) THEN "image"
    ELSE IF endsWith(toLowerCase(file.name), DotPdf) \/ file.type = PdfMime THEN "pdf"
    ELSE IF endsWith(toLowerCase(file.name), DotPptx) THEN "pptx"
    ELSE "unsupported"

\* a faulty variant: the read or extraction is started and not awaited
NoAwait == FALSE

\* the for ... of loop body awaits the read or extraction it has started
AwaitSuspends == TRUE

\* a faulty variant: setFiles(newFiles), the list is replaced
PrependFiles(prev, newFiles) == newFiles \o prev
ReplaceFiles(prev, newFiles) == newFiles

\* setFiles(prev => [...prev, ...newFiles])
AppendFiles(prev, newFiles) == prev \o newFiles

(* ------------------- one invocation of handleFileChange --------------- *)
(* pc        "idle" (not invoked yet), "await" (suspended at an await of  *)
(*           the loop body), "done" (returned)                            *)
(* batch     selectedFiles = Array.from(e.target.files || [])             *)
(* idx       the position of the for ... of loop in selectedFiles         *)
(* newFiles  the local array of accepted records                          *)
(* inflight  positions whose read or extraction has started and has not   *)
(*           settled                                                      *)
(* lost      positions whose FileReader fired error: the promise of the   *)
(*           image route has no onerror and never settles                 *)
(* trace     history of the invocation, one event per thing it did to a   *)
(*           position: "start" (read or extraction started), "accept"     *)
(*           (record pushed), "reject" (setError called), "lost"          *)
IdleCall ==
    [pc |-> "idle", batch |-> <<>>, idx |-> 0, newFiles |-> <<>>,
     inflight |-> {}, lost |-> {}, trace |-> <<>>]

Event(e, i, m, r) == [ev |-> e, at |-> i, msg |-> m, rec |-> r]

\* the read or extraction of position i starts
Start(st, i) ==
    [st EXCEPT !.inflight = @ \cup {i}, !.trace = Append(@, Event("start", i, <<>>, <<>>))]

\* setError(msg) for the file at position i
Reject(st, i, msg) ==
    [st EXCEPT !.inflight = @ \ {i}, !.trace = Append(@, Event("reject", i, msg, <<>>))]

\* newFiles.push(rec) for the file at position i
Accept(st, i, rec) ==
    [st EXCEPT !.inflight = @ \ {i}, !.newFiles = Append(@, rec),
               !.trace = Append(@, Event("accept", i, <<>>, <<rec>>))]

(* The loop from position st.idx on, up to the next suspension or to the  *)
(* return: what runs in one turn of the event loop.  The result is the    *)
(* invocation's state and the values of error and files it leaves.        *)
RECURSIVE RunLoop(_, _, _)
RunLoop(st, err, fs) ==
    IF st.idx > Len(st.batch)
    THEN [call |-> [st EXCEPT !.pc = "done"], error |-> err,
          files |-> AppendFiles(fs, st.newFiles)]
    ELSE LET file == st.batch[st.idx]
             next == [st EXCEPT !.idx = @ + 1]
         IN  IF ExceedsLimit(file)
             THEN RunLoop(Reject(next, st.idx, SizeLimitMsg(file)),
                          Message(SizeLimitMsg(file)), fs)
             ELSE IF Classify(file) = "unsupported"
             THEN RunLoop(Reject(next, st.idx, UnsupportedMsg(file)),
                          Message(UnsupportedMsg(file)), fs)
             ELSE IF AwaitSuspends
             THEN [call |-> [Start(st, st.idx) EXCEPT !.pc = "await"],
                   error |-> err, files |-> fs]
             ELSE RunLoop(Start(next, st.idx), err, fs)

\* the continuation after the awaited operation at position i has settled
\* into st: the loop goes on if the invocation was suspended on it
Resume(st, i, err, fs) ==
    IF st.pc = "await" /\ st.idx = i
    THEN RunLoop([st EXCEPT !.idx = @ + 1], err, fs)
    ELSE [call |-> st, error |-> err, files |-> fs]

Install(c, r) ==
    /\ calls' = [calls EXCEPT ![c] = r.call]
    /\ error' = r.error
    /\ files' = r.files

RECURSIVE PickedUpTo(_)
PickedUpTo(n) == IF n = 0 THEN 0 ELSE Len(calls[n].batch) + PickedUpTo(n - 1)

\* e.target.files: up to n files, all different, among those the user can pick
Batches(pickable, n) ==
    { b \in UNION { [1..k -> pickable] : k \in 0..n } :
        \A i, j \in DOMAIN b : i # j => b[i] # b[j] }

(* ------------------------------ actions ------------------------------- *)
\* the coordinator before any change event
IngestInit ==
    /\ files = <<>>
    /\ selectedFileIndices = {}
    /\ error = Null
    /\ calls = [c \in CallIds |-> IdleCall]
    /\ removals = 0

Init ==
    /\ IngestInit
    /\ recon = NoRecon
    /\ pdf = NoPdf
    /\ pptx = NoPptx
    /\ chat = NoChat

\* onChange of the file input: nothing disables the input while an earlier
\* invocation is suspended
HandleFileChange(c, pickable, n) ==
    /\ calls[c].pc = "idle"
    /\ \A d \in CallIds : d < c => calls[d].pc # "idle"
    /\ \E batch \in Batches(pickable, n) :
          Install(c, RunLoop([IdleCall EXCEPT !.batch = batch, !.idx = 1], Null, files))
    /\ UNCHANGED <<selectedFileIndices, removals>>

\* reader.onload: resolve(reader.result)
ImageLoaded(c) ==
    /\ \E i \in calls[c].inflight :
          LET file == calls[c].batch[i] IN
          /\ Classify(file) = "image"
          /\ file.health # "unreadable"
          /\ Install(c, Resume(Accept(calls[c], i, ImageRecord(file, DataUrl(file))),
                               i, error, files))
    /\ UNCHANGED <<selectedFileIndices, removals>>

\* the FileReader fires error: no listener, the promise stays pending
ImageReadError(c) ==
    /\ \E i \in calls[c].inflight :
          LET file == calls[c].batch[i] IN
          /\ Classify(file) = "image"
          /\ file.health = "unreadable"
          /\ calls' = [calls EXCEPT ![c].inflight = @ \ {i}, ![c].lost = @ \cup {i},
                                    ![c].trace = Append(@, Event("lost", i, <<>>, <<>>))]
    /\ UNCHANGED <<files, error, selectedFileIndices, removals>>

\* extractPdfText resolves
PdfResolved(c) ==
    /\ \E i \in calls[c].inflight :
          LET file == calls[c].batch[i] IN
          /\ Classify(file) = "pdf"
          /\ file.health = "good"
          /\ Install(c, Resume(Accept(calls[c], i, PdfRecord(file, PdfText(file))),
                               i, error, files))
    /\ UNCHANGED <<selectedFileIndices, removals>>

\* extractPdfText rejects: with its own Error when the decode throws inside
\* its try, with the rejection of file.arrayBuffer() when the read fails
PdfRejected(c) ==
    /\ \E i \in calls[c].inflight :
          LET file == calls[c].batch[i] IN
          /\ Classify(file) = "pdf"
          /\ file.health # "good"
          /\ \E m \in (IF file.health = "corrupt" THEN {PdfExtractMsg} ELSE ReadErrorMessages) :
                Install(c, Resume(Reject(calls[c], i, OrFallback(m)),
                                  i, Message(OrFallback(m)), files))
    /\ UNCHANGED <<selectedFileIndices, removals>>

\* extractPptxText resolves
PptxResolved(c) ==
    /\ \E i \in calls[c].inflight :
          LET file == calls[c].batch[i] IN
          /\ Classify(file) = "pptx"
          /\ file.health = "good"
          /\ Install(c, Resume(Accept(calls[c], i, PptxRecord(file, PptxText(file))),
                               i, error, files))
    /\ UNCHANGED <<selectedFileIndices, removals>>

\* extractPptxText rejects (JSZip.loadAsync or an entry read)
PptxRejected(c) ==
    /\ \E i \in calls[c].inflight :
          LET file == calls[c].batch[i] IN
          /\ Classify(file) = "pptx"
          /\ file.health # "good"
          /\ Install(c, Resume(Reject(calls[c], i, PptxMsg), i, Message(PptxMsg), files))
    /\ UNCHANGED <<selectedFileIndices, removals>>

\* removeFile(index), index being a position of the rendered list (0-based)
RemoveFile(index) ==
    /\ removals < MaxRemovals
    /\ index \in 0..(Len(files) - 1)
    /\ files' = [j \in 1..(Len(files) - 1) |->
                    IF j - 1 < index THEN files[j] ELSE files[j + 1]]
    /\ selectedFileIndices' = selectedFileIndices \ {index}
    /\ removals' = removals + 1
    /\ UNCHANGED <<error, calls>>

CallStep(c) ==
    \/ ImageLoaded(c)
    \/ ImageReadError(c)
    \/ PdfResolved(c)
    \/ PdfRejected(c)
    \/ PptxResolved(c)
    \/ PptxRejected(c)

\* change events overlap freely; the user also removes files
Next ==
    \/ \E c \in CallIds :
          HandleFileChange(c, CoreFiles, MaxPicked - PickedUpTo(MaxCalls)) /\ UNCHANGED <<pdfVars, otherVars>>
    \/ \E c \in CallIds : CallStep(c) /\ UNCHANGED <<pdfVars, otherVars>>
    \/ \E index \in 0..(MaxPicked - 1) : RemoveFile(index) /\ UNCHANGED <<pdfVars, otherVars>>

Spec == Init /\ [][Next]_vars

\* one change event, its batch drawn from every combination of name, type,
\* size and health
NextWide ==
    \/ HandleFileChange(1, FileUniverse, MaxBatch) /\ UNCHANGED <<pdfVars, otherVars>>
    \/ CallStep(1) /\ UNCHANGED <<pdfVars, otherVars>>

SpecWide == Init /\ [][NextWide]_vars

(* ====================================================================== *)
(*                              the claims                                *)
(* ====================================================================== *)

(* ---- what the specification says of one file, in its own words ------- *)
FiftyMiB == 50 * 1024 * 1024

\* name ends with .pdf, in any mix of upper and lower case
EndsDotPdf(n) ==
    /\ Len(n) >= 4
    /\ n[Len(n) - 3] = "."
    /\ n[Len(n) - 2] \in {"p", "P"}
    /\ n[Len(n) - 1] \in {"d", "D"}
    /\ n[Len(n)] \in {"f", "F"}

\* name ends with .pptx, in any mix of upper and lower case
EndsDotPptx(n) ==
    /\ Len(n) >= 5
    /\ n[Len(n) - 4] = "."
    /\ n[Len(n) - 3] \in {"p", "P"}
    /\ n[Len(n) - 2] \in {"p", "P"}
    /\ n[Len(n) - 1] \in {"t", "T"}
    /\ n[Len(n)] \in {"x", "X"}

\* the route the dispatch table gives a file within the ceiling
RouteByPriority(f) ==
    IF startsWith(f.type, ImagePrefix) THEN "image"
    ELSE IF EndsDotPdf(f.name) \/ f.type = PdfMime THEN "pdf"
    ELSE IF EndsDotPptx(f.name) THEN "pptx"
    ELSE "unsupported"

\* a valid file: within the ceiling, of a supported type, and its read or
\* extraction succeeds
ValidFile(f) ==
    /\ f.size <= FiftyMiB
    /\ \/ RouteByPriority(f) = "image" /\ f.health # "unreadable"
       \/ RouteByPriority(f) \in {"pdf", "pptx"} /\ f.health = "good"

\* the UploadedFile record a valid file is to yield
ExpectedRecord(f) ==
    CASE RouteByPriority(f) = "image" ->
            [name |-> f.name, type |-> f.type, data |-> DataUrl(f), preview |-> DataUrl(f)]
      [] RouteByPriority(f) = "pdf" ->
            [name |-> f.name, type |-> PdfMime, data |-> PdfText(f)]
      [] OTHER ->
            [name |-> f.name, type |-> PptxMime, data |-> PptxText(f)]

\* the records of the valid files of a batch, in input order
RECURSIVE ExpectedRecords(_)
ExpectedRecords(batch) ==
    IF batch = <<>> THEN <<>>
    ELSE (IF ValidFile(Head(batch)) THEN <<ExpectedRecord(Head(batch))>> ELSE <<>>)
         \o ExpectedRecords(Tail(batch))

\* the positions of a batch that are rejected or fail
FailedPositions(batch) == { i \in DOMAIN batch : ~ValidFile(batch[i]) }

\* the messages the error state shows
Surfaced(e) == IF e.null THEN {} ELSE {e.text}

\* invocation c returns in this step
Returns(c) == calls[c].pc # "done" /\ calls'[c].pc = "done"

(* C1: batch isolation.  Whatever files of a batch are rejected or fail,  *)
(* every valid file of the batch yields its record, appended to files:    *)
(* an invocation that has nothing left in flight has returned, and the    *)
(* records it appended are those of the valid files of its batch.         *)
(* Fails on the code: an image whose read fails leaves the invocation     *)
(* suspended for ever, and the records of the valid files before it are   *)
(* never appended (the defect of C10).                                    *)
C1_BatchIsolation ==
    \A c \in CallIds :
        (calls[c].pc # "idle" /\ calls[c].inflight = {})
            => /\ \A i \in DOMAIN calls[c].batch :
                     ValidFile(calls[c].batch[i])
                        => /\ calls[c].pc = "done"
                           /\ \E k \in DOMAIN calls[c].newFiles :
                                 calls[c].newFiles[k] = ExpectedRecord(calls[c].batch[i])
               /\ calls[c].pc = "done"
                     => calls[c].newFiles = ExpectedRecords(calls[c].batch)

\* what does hold of C1: an invocation that returns has appended the records
\* of the valid files of its batch, failed files contributing none
C1_IsolationOnReturn ==
    \A c \in CallIds :
        calls[c].pc = "done" => calls[c].newFiles = ExpectedRecords(calls[c].batch)

(* C2: no error is silently dropped.  When an invocation returns, the     *)
(* error state shows one message for each rejected or failed file of its  *)
(* batch.  Fails on the code: error holds one string, and each setError   *)
(* of the batch overwrites the one before.                                *)
C2_EveryErrorSurfaced ==
    [][\A c \in CallIds :
          Returns(c) =>
              Cardinality(Surfaced(error')) = Cardinality(FailedPositions(calls'[c].batch))]_vars

(* C3: every message set for a rejected or failed file names that file,   *)
(* for each failure kind.  Fails on the code: the messages of the PDF and *)
(* PPTX decode failures are fixed strings without the file's name.        *)
C3_MessageNamesFile ==
    \A c \in CallIds :
        \A k \in DOMAIN calls[c].trace :
            LET e == calls[c].trace[k] IN
            e.ev = "reject" => includes(e.msg, calls[c].batch[e.at].name)

\* what does hold of C3: the size-limit and unsupported-type messages name
\* the file
C3_RejectionNamesFile ==
    \A c \in CallIds :
        \A k \in DOMAIN calls[c].trace :
            LET e == calls[c].trace[k]
                f == calls[c].batch[e.at]
            IN  (e.ev = "reject" /\ (f.size > FiftyMiB \/ RouteByPriority(f) = "unsupported"))
                    => includes(e.msg, f.name)

\* the events of invocation c about position i
EventsAt(c, i) == { k \in DOMAIN calls[c].trace : calls[c].trace[k].at = i }

\* position i of invocation c was rejected with message m
RejectedWith(c, i, m) ==
    \E k \in EventsAt(c, i) : calls[c].trace[k].ev = "reject" /\ calls[c].trace[k].msg = m

\* the read or extraction of position i of invocation c was started
Started(c, i) == \E k \in EventsAt(c, i) : calls[c].trace[k].ev = "start"

\* position i of invocation c yielded the record r
AcceptedAs(c, i, r) ==
    \E k \in EventsAt(c, i) : calls[c].trace[k].ev = "accept" /\ calls[c].trace[k].rec = <<r>>

\* position i of invocation c yielded some record
Accepted(c, i) == \E k \in EventsAt(c, i) : calls[c].trace[k].ev = "accept"

\* the positions of its batch invocation c has dealt with or is dealing with
Reached(c) == { i \in DOMAIN calls[c].batch : EventsAt(c, i) # {} }

(* C4: a file is rejected for size if and only if its size is strictly    *)
(* greater than 50 MiB; the check comes first, so an oversize file of any *)
(* type yields no record and is never read or extracted, and the loop     *)
(* goes on with the next file.                                            *)
C4_SizeCeiling ==
    \A c \in CallIds :
        /\ \A i \in Reached(c) :
              LET f == calls[c].batch[i] IN
              /\ RejectedWith(c, i, SizeLimitMsg(f)) <=> f.size > FiftyMiB
              /\ f.size > FiftyMiB => ~Started(c, i) /\ ~Accepted(c, i)
        /\ \A i \in DOMAIN calls[c].batch :
              (calls[c].batch[i].size > FiftyMiB /\ i < calls[c].idx) => i \in Reached(c)
        /\ \A i \in DOMAIN calls[c].batch :
              (i \in Reached(c) /\ calls[c].batch[i].size > FiftyMiB /\ i < Len(calls[c].batch))
                  => calls[c].idx > i

\* a returned batch with a file of exactly 50 MiB accepted, then a file of
\* 50 MiB + 1 byte rejected, then a further file dealt with
C4_Witness ==
    \E c \in CallIds :
        /\ calls[c].pc = "done"
        /\ \E i, j, l \in DOMAIN calls[c].batch :
              /\ j < l
              /\ calls[c].batch[i].size = FiftyMiB /\ Accepted(c, i)
              /\ calls[c].batch[j].size = FiftyMiB + 1
              /\ RejectedWith(c, j, SizeLimitMsg(calls[c].batch[j]))
              /\ l \in Reached(c)

(* C5: every file within the ceiling takes exactly one route, in priority *)
(* order: image/ MIME -> image route (data = preview = the data URL),     *)
(* whatever the name; else .pdf name or PDF MIME -> PDF Extractor (data = *)
(* the extracted text, no preview); else .pptx name -> Presentation       *)
(* Extractor; else rejected as unsupported, with no record.               *)
C5_Dispatch ==
    \A c \in CallIds :
        \A i \in Reached(c) :
            LET f == calls[c].batch[i]
                r == RouteByPriority(f)
            IN  f.size <= FiftyMiB =>
                  /\ r = "unsupported" <=> RejectedWith(c, i, UnsupportedMsg(f))
                  /\ r = "unsupported" => ~Started(c, i) /\ ~Accepted(c, i)
                  /\ r # "unsupported" => Started(c, i)
                  /\ Accepted(c, i) => AcceptedAs(c, i, ExpectedRecord(f))
                  /\ (r = "image" /\ Accepted(c, i)) =>
                        \E k \in EventsAt(c, i) :
                            LET rec == calls[c].trace[k].rec IN
                            /\ rec # <<>>
                            /\ rec[1].data = DataUrl(f)
                            /\ rec[1].preview = DataUrl(f)
                  /\ (r \in {"pdf", "pptx"} /\ Accepted(c, i)) =>
                        \E k \in EventsAt(c, i) :
                            LET rec == calls[c].trace[k].rec IN
                            /\ rec # <<>>
                            /\ "preview" \notin DOMAIN rec[1]
                            /\ rec[1].data = (IF r = "pdf" THEN PdfText(f) ELSE PptxText(f))
                  /\ \A k \in EventsAt(c, i) :
                        calls[c].trace[k].ev = "reject" =>
                            calls[c].trace[k].msg \in
                                (CASE r = "pdf" -> {PdfExtractMsg, PdfFallbackMsg} \cup ReadErrorMessages
                                   [] r = "pptx" -> {PptxMsg}
                                   [] r = "unsupported" -> {UnsupportedMsg(f)}
                                   [] OTHER -> {})
                  /\ Cardinality({ k \in EventsAt(c, i) : calls[c].trace[k].ev = "start" }) <= 1

\* an image named .pdf went the image route, and a file named .pptx with
\* the PDF MIME went to the PDF Extractor, in one returned batch
C5_Witness ==
    \E c \in CallIds :
        /\ calls[c].pc = "done"
        /\ \E i, j \in DOMAIN calls[c].batch :
              LET f == calls[c].batch[i]
                  g == calls[c].batch[j]
              IN  /\ EndsDotPdf(f.name) /\ startsWith(f.type, ImagePrefix)
                  /\ AcceptedAs(c, i, ExpectedRecord(f))
                  /\ EndsDotPptx(g.name) /\ g.type = PdfMime
                  /\ AcceptedAs(c, j, ExpectedRecord(g))

(* C6: in every reachable state, every UploadedFile of files has preview  *)
(* set if and only if its type begins with image/.                        *)
C6_PreviewIffImage ==
    \A i \in DOMAIN files :
        ("preview" \in DOMAIN files[i] /\ files[i].preview # <<>>)
            <=> startsWith(files[i].type, ImagePrefix)

\* after a removal, files holds an image record and a document record
C6_Witness ==
    /\ removals > 0
    /\ \E i, j \in DOMAIN files :
          /\ startsWith(files[i].type, ImagePrefix) /\ "preview" \in DOMAIN files[i]
          /\ files[j].type = PdfMime /\ "preview" \notin DOMAIN files[j]

(* C7: ingestion is accumulative and order-preserving.  The step in which *)
(* an invocation returns leaves files equal to the files before it        *)
(* followed by the records of the accepted files of the batch, in input   *)
(* order; no other step of an invocation touches files.                   *)
C7_AppendInOrder ==
    [][\A c \in CallIds :
          /\ Returns(c) => files' = files \o ExpectedRecords(calls'[c].batch)
          /\ (calls'[c] # calls[c] /\ ~Returns(c)) => files' = files]_vars

\* two overlapping invocations have both returned, the second first: files
\* holds the records of the second batch followed by those of the first,
\* and a rejected file of the first batch left no record
C7_Witness ==
    /\ calls[1].pc = "done" /\ calls[2].pc = "done"
    /\ removals = 0
    /\ calls[1].newFiles # <<>> /\ calls[2].newFiles # <<>>
    /\ FailedPositions(calls[1].batch) # {}
    /\ files = calls[2].newFiles \o calls[1].newFiles

(* C8: within one invocation the files are processed one at a time, in    *)
(* input order: the read or extraction of a file starts only after every  *)
(* file before it has been accepted, rejected or has failed.              *)
C8_Sequential ==
    \A c \in CallIds :
        LET t == calls[c].trace IN
        /\ \A k \in DOMAIN t :
              t[k].ev = "start" =>
                  \A j \in 1..(t[k].at - 1) :
                      \E m \in 1..(k - 1) :
                          t[m].at = j /\ t[m].ev \in {"accept", "reject", "lost"}
        /\ \A k, m \in DOMAIN t : k < m => t[k].at <= t[m].at
        /\ Cardinality(calls[c].inflight) <= 1

\* an invocation has started the extraction of its second file after the
\* first one, itself read or extracted, was settled
C8_Witness ==
    \E c \in CallIds :
        \E k, m \in DOMAIN calls[c].trace :
            /\ k < m
            /\ calls[c].trace[k].ev = "start" /\ calls[c].trace[k].at = 1
            /\ calls[c].trace[m].ev = "start" /\ calls[c].trace[m].at = 2

\* the PDF and PPTX extractions in flight, over all invocations
ExtractionsInFlight ==
    { p \in CallIds \X (1..MaxPicked) :
        /\ p[2] \in calls[p[1]].inflight
        /\ RouteByPriority(calls[p[1]].batch[p[2]]) \in {"pdf", "pptx"} }

(* C9: at any time at most one extraction is in flight, also when the     *)
(* user picks a second batch while an earlier one is being processed.     *)
(* Fails on the code: nothing keeps a second change event from starting   *)
(* its own read or extraction while the first invocation is suspended.    *)
C9_OneExtractionInFlight == Cardinality(ExtractionsInFlight) <= 1

(* C10: once the processing of a file has started it runs to completion   *)
(* or failure: an invocation that has not returned always has a step to   *)
(* take, on each route and also when the read or decode reports an error. *)
(* Fails on the code: the promise of the image route is resolved by       *)
(* onload alone, so a read error leaves the invocation suspended with no  *)
(* step left.                                                             *)
C10_RunsToCompletion ==
    \A c \in CallIds :
        calls[c].pc # "idle" => (calls[c].pc = "done" \/ ENABLED CallStep(c))

(* ====================================================================== *)
(*            extractPdfText: the reconstruction of one page              *)
(* ====================================================================== *)
(* A text fragment of a page, as pdf.js returns it: str, the position     *)
(* transform[4] (x) and transform[5] (y), and width, which may be absent. *)
(* The page's fragments arrive as the array textContent.items.            *)

(* ----------------------------- bounds --------------------------------- *)
\* fragments on one page
MaxItems == 3
\* runs of the reconstruction over the same array
MaxRuns == 2

(* ------------------------ program constants --------------------------- *)
\* Math.abs(lineY - y) < 5
LineTolerance == 5
\* gap > 20
WideGap == 20
\* gap > 2
NarrowGap == 2

Frag(s, x, y) == [str |-> s, x |-> x, y |-> y]
FragW(s, x, y, w) == [str |-> s, x |-> x, y |-> y, width |-> w]

\* one baseline at y = 600 with the gaps 2, 3, 20, 21 after the fragment that
\* ends at 10, larger ones after the fragment without width, negative ones
\* between the overlapping fragments; baselines near it at 604 and 607; far
\* ones at 650 and 700; two blank fragments
Fragments ==
    { FragW(<<"A">>, 0, 600, 10),
      Frag(<<"a">>, 0, 600),
      FragW(<<"B">>, 12, 600, 10),
      Frag(<<"C">>, 13, 600),
      FragW(<<"D">>, 30, 600, 0),
      Frag(<<"E", " ">>, 31, 600),
      FragW(<<"F">>, 0, 604, 10),
      Frag(<<"G">>, 13, 607),
      Frag(<<"H">>, 0, 650),
      Frag(<<"I">>, 0, 700),
      Frag(<<" ">>, 5, 604),
      Frag(<<>>, 5, 650) }

\* the arrays textContent.items of at most n fragments
ItemArrays(n) == UNION { [1..m -> Fragments] : m \in 0..n }

(* ------------------------------ numbers -------------------------------- *)
Abs(n) == IF n < 0 THEN 0 - n ELSE n

(* --------------------------- String.trim ------------------------------- *)
WhiteSpace == {" ", "\t", "\n", "\r"}

RECURSIVE trimStart(_)
trimStart(s) ==
    IF Len(s) = 0 THEN s
    ELSE IF s[1] \in WhiteSpace THEN trimStart(Tail(s))
    ELSE s

RECURSIVE trimEnd(_)
trimEnd(s) ==
    IF Len(s) = 0 THEN s
    ELSE IF s[Len(s)] \in WhiteSpace THEN trimEnd(SubSeq(s, 1, Len(s) - 1))
    ELSE s

trim(s) == trimEnd(trimStart(s))

\* if (!item.str || item.str.trim() === '') return
SkippedEmptyOnly(item) == Len(item.str) = 0
SkippedNever(item) == FALSE
Skipped(item) == Len(item.str) = 0 \/ Len(trim(item.str)) = 0

(* ------------------------- grouping into lines ------------------------- *)
(* lines is the Map<number, any[]>: its entries in insertion order, each  *)
(* with its key (the y of the fragment that created it) and its array.    *)

WithinToleranceWide(lineY, y) == Abs(lineY - y) < 2 * LineTolerance
WithinToleranceSigned(lineY, y) == lineY - y < LineTolerance
WithinTolerance(lineY, y) == Abs(lineY - y) < LineTolerance

\* the for ... of over lines.keys() with its break: the position of the first
\* entry, in insertion order, whose key is within the tolerance of y; 0 is null
foundNearest(lines, y) ==
    LET hits == { g \in 1..Len(lines) : WithinTolerance(lines[g].key, y) }
    IN  IF hits = {} THEN 0
        ELSE CHOOSE g \in hits :
                \A h \in hits : \/ Abs(lines[g].key - y) < Abs(lines[h].key - y)
                                 \/ (Abs(lines[g].key - y) = Abs(lines[h].key - y) /\ g <= h)
foundKey(lines, y) ==
    LET hits == { g \in 1..Len(lines) : WithinTolerance(lines[g].key, y) }
    IN  IF hits = {} THEN 0
        ELSE CHOOSE g \in hits : \A h \in hits : g <= h

GroupItemReplacing(lines, item) ==
    IF Skipped(item) THEN lines
    ELSE LET y == item.y
             g == foundKey(lines, y)
         IN  IF g # 0
             THEN [lines EXCEPT ![g].items = <<item>>]
             ELSE Append(lines, [key |-> y, items |-> <<item>>])
\* one iteration of items.forEach
GroupItem(lines, item) ==
    IF Skipped(item) THEN lines
    ELSE LET y == item.y
             g == foundKey(lines, y)
         IN  IF g # 0
             THEN [lines EXCEPT ![g].items = Append(@, item)]
             ELSE Append(lines, [key |-> y, items |-> <<item>>])

(* ----------------------------- the sorts ------------------------------- *)
\* Array.from(lines.keys()).sort((a, b) => b - a): the element of a at i goes
\* behind those that compare before it and behind its equals of lower index
SortAscending(a) ==
    LET n == Len(a)
        place(i) == 1 + Cardinality({ j \in 1..n : a[j] < a[i] \/ (a[j] = a[i] /\ j < i) })
    IN  [p \in 1..n |-> a[CHOOSE i \in 1..n : place(i) = p]]
SortDescending(a) ==
    LET n == Len(a)
        place(i) == 1 + Cardinality({ j \in 1..n : a[j] > a[i] \/ (a[j] = a[i] /\ j < i) })
    IN  [p \in 1..n |-> a[CHOOSE i \in 1..n : place(i) = p]]

Keys(lines) == [g \in 1..Len(lines) |-> lines[g].key]

sortedY(lines) == SortDescending(Keys(lines))

\* lineItems.sort((a, b) => a.transform[4] - b.transform[4]): Array.prototype.sort
\* is stable, fragments of equal x keep their order
Unsorted(a) == a
SortByX(a) ==
    LET n == Len(a)
        place(i) == 1 + Cardinality({ j \in 1..n : a[j].x < a[i].x \/ (a[j].x = a[i].x /\ j < i) })
    IN  [p \in 1..n |-> a[CHOOSE i \in 1..n : place(i) = p]]

\* lines.get(y)
EntryOf(lines, y) == CHOOSE g \in 1..Len(lines) : lines[g].key = y

(* ------------------------- the text of a line -------------------------- *)
\* current.width || 0
WidthOrZero(item) ==
    IF "width" \in DOMAIN item /\ item.width # 0 THEN item.width ELSE 0

\* next.transform[4] - (current.transform[4] + (current.width || 0))
gap(current, next) == next.x - (current.x + WidthOrZero(current))

FourSpaces == <<" ", " ", " ", " ">>
OneSpace == <<" ">>

\* if (gap > 20) lineStr += '    '; else if (gap > 2) lineStr += ' '
SpacingInclusive(g) ==
    IF g >= WideGap THEN FourSpaces
    ELSE IF g >= NarrowGap THEN OneSpace
    ELSE <<>>
Spacing(g) ==
    IF g > WideGap THEN FourSpaces
    ELSE IF g > NarrowGap THEN OneSpace
    ELSE <<>>

\* the for loop over lineItems, from position j on
RECURSIVE lineStrFrom(_, _)
lineStrFrom(lineItems, j) ==
    IF j > Len(lineItems) THEN <<>>
    ELSE lineItems[j].str
         \o (IF j + 1 <= Len(lineItems)
             THEN Spacing(gap(lineItems[j], lineItems[j + 1]))
             ELSE <<>>)
         \o lineStrFrom(lineItems, j + 1)

lineStr(lineItems) == lineStrFrom(lineItems, 1)

NewLine == <<"\n">>

\* pageText += lineStr + '\n'
AddLineJoined(pageText, str) ==
    IF Len(pageText) = 0 THEN str ELSE pageText \o NewLine \o str
AddLine(pageText, str) == pageText \o str \o NewLine

(* ------------------- the reconstruction as a whole --------------------- *)
RECURSIVE GroupAll(_, _)
GroupAll(lines, items) ==
    IF Len(items) = 0 THEN lines
    ELSE GroupAll(GroupItem(lines, Head(items)), Tail(items))

RECURSIVE EmitAll(_, _, _)
EmitAll(lines, ys, pageText) ==
    IF Len(ys) = 0 THEN pageText
    ELSE EmitAll(lines, Tail(ys),
                 AddLine(pageText, lineStr(SortByX(lines[EntryOf(lines, Head(ys))].items))))

\* pageText of the page whose textContent.items is items
PageText(items) ==
    LET lines == GroupAll(<<>>, items)
    IN  EmitAll(lines, sortedY(lines), <<>>)

(* ------------------- the reconstruction step by step ------------------- *)
(* recon:                                                                 *)
(*   pc        "group" (in items.forEach), "emit" (in sortedY.forEach),   *)
(*             "done" (pageText is complete)                              *)
(*   given     the array textContent.items as pdf.js returned it          *)
(*   items     the same array as it is now                                *)
(*   k         position of items.forEach                                  *)
(*   lines     the Map                                                    *)
(*   order     sortedY                                                    *)
(*   j         position of sortedY.forEach                                *)
(*   pageText  the text so far                                            *)
(*   run       which run over the array this is                           *)
(*   first     pageText of the first run                                  *)

\* const items = textContent.items as any[]: the array itself, not a copy
ReadReversing(a) == [i \in 1..Len(a) |-> a[Len(a) + 1 - i]]
ReadItems(a) == a

StartPage(given, items, run, first) ==
    [pc |-> "group", given |-> given, items |-> ReadItems(items), k |-> 1,
     lines |-> <<>>, order |-> <<>>, j |-> 1, pageText |-> <<>>,
     run |-> run, first |-> first]

InitLines ==
    /\ IngestInit
    /\ pdf = NoPdf
    /\ pptx = NoPptx
    /\ chat = NoChat
    /\ \E a \in ItemArrays(MaxItems) : recon = StartPage(a, a, 1, <<>>)

\* one iteration of items.forEach
GroupNext ==
    /\ recon.pc = "group"
    /\ recon.k <= Len(recon.items)
    /\ recon' = [recon EXCEPT !.lines = GroupItem(@, recon.items[recon.k]),
                              !.k = @ + 1]
    /\ UNCHANGED <<ingestVars, pdf, otherVars>>

\* const sortedY = ...; let pageText = ''
SortLines ==
    /\ recon.pc = "group"
    /\ recon.k > Len(recon.items)
    /\ recon' = [recon EXCEPT !.pc = "emit", !.order = sortedY(recon.lines),
                              !.j = 1, !.pageText = <<>>]
    /\ UNCHANGED <<ingestVars, pdf, otherVars>>

\* the body of sortedY.forEach for the key y: the array of the entry is sorted
\* in place, its text is added to pageText
Emit(r, y) ==
    LET g == EntryOf(r.lines, y)
        lineItems == SortByX(r.lines[g].items)
    IN  [r EXCEPT !.lines[g].items = lineItems,
                  !.pageText = AddLine(@, lineStr(lineItems)),
                  !.j = @ + 1]

\* one iteration of sortedY.forEach
EmitLine ==
    /\ recon.pc = "emit"
    /\ recon.j <= Len(recon.order)
    /\ recon' = Emit(recon, recon.order[recon.j])
    /\ UNCHANGED <<ingestVars, pdf, otherVars>>

EndPage ==
    /\ recon.pc = "emit"
    /\ recon.j > Len(recon.order)
    /\ recon' = [recon EXCEPT !.pc = "done"]
    /\ UNCHANGED <<ingestVars, pdf, otherVars>>

\* the reconstruction run once more over the array the last run left
RunAgain ==
    /\ recon.pc = "done"
    /\ recon.run < MaxRuns
    /\ recon' = StartPage(recon.given, recon.items, recon.run + 1,
                          IF recon.run = 1 THEN recon.pageText ELSE recon.first)
    /\ UNCHANGED <<ingestVars, pdf, otherVars>>

NextLines ==
    \/ GroupNext
    \/ SortLines
    \/ EmitLine
    \/ EndPage
    \/ RunAgain

SpecLines == InitLines /\ [][NextLines]_vars

(* ====================================================================== *)
(*                 extractPdfText: the document as a whole                *)
(* ====================================================================== *)
(* One PDF file picked alone: extractPdfText from its first await to its  *)
(* return or throw, and the route of handleFileChange that awaits it.     *)

(* ----------------------------- bounds --------------------------------- *)
\* pdf.numPages
MaxPages == 3

\* the pages of the documents: textContent.items of an empty page, of a page
\* of one line, of a page of two lines that arrive bottom line first, and of a
\* page of blank fragments
PageSamples ==
    { <<>>,
      <<Frag(<<"a">>, 0, 600), Frag(<<"C">>, 13, 600)>>,
      <<Frag(<<"H">>, 0, 650), Frag(<<"I">>, 0, 700)>>,
      <<Frag(<<" ">>, 5, 604)>> }

\* the documents: their pages in order
Documents == UNION { [1..n -> PageSamples] : n \in 1..MaxPages }

\* where the extraction of a document fails, if it does:
\*   read            file.arrayBuffer() rejects, with the browser's message
\*   getDocument     loadingTask.promise rejects
\*   getPage         pdf.getPage(page) rejects
\*   getTextContent  page.getTextContent() rejects, for the page numbered page
NoFault == [at |-> "none", page |-> 0, message |-> <<>>]
Faults(numPages) ==
    {NoFault}
    \cup { [at |-> "read", page |-> 0, message |-> m] : m \in ReadErrorMessages }
    \cup { [at |-> "getDocument", page |-> 0, message |-> <<>>] }
    \cup { [at |-> a, page |-> p, message |-> <<>>] :
             a \in {"getPage", "getTextContent"}, p \in 1..numPages }

\* the file of the document
PdfFile == File(BPdf, PdfMime, 1024, "good")

(* ------------------------ the number of a page ------------------------- *)
Digits == <<"0", "1", "2", "3", "4", "5", "6", "7", "8", "9">>

\* ${i}: the decimal digits of i
RECURSIVE ToDecimal(_)
ToDecimal(n) ==
    IF n < 10 THEN <<Digits[n + 1]>>
    ELSE ToDecimal(n \div 10) \o <<Digits[(n % 10) + 1]>>

(* ------------------------- the block of a page ------------------------- *)
BlockZeroBased(i, pageText) ==
    <<"--- Page ">> \o ToDecimal(i - 1) \o <<" ---", "\n">> \o pageText \o <<"\n", "\n">>
\* `--- Page ${i} ---\n${pageText}\n\n`
Block(i, pageText) ==
    <<"--- Page ">> \o ToDecimal(i) \o <<" ---", "\n">> \o pageText \o <<"\n", "\n">>

(* ---------------------- how extractPdfText settles --------------------- *)
Pending == [kind |-> "pending", text |-> <<>>, message |-> <<>>]
\* return fullText
Returned(fullText) == [kind |-> "return", text |-> fullText, message |-> <<>>]
\* a rejection that leaves extractPdfText as it came
Thrown(m) == [kind |-> "throw", text |-> <<>>, message |-> m]

CaughtReturningText(fullText) == Returned(fullText)
\* catch (err) { ...; throw new Error("Failed to extract text from PDF. ...") }
Caught(fullText) == Thrown(PdfExtractMsg)

(* pdf:                                                                   *)
(*   pc        the await extractPdfText is suspended at: "arrayBuffer",   *)
(*             "getDocument", "getPage", "getTextContent"; "done" when    *)
(*             handleFileChange has returned                              *)
(*   file      the File                                                   *)
(*   pages     textContent.items of each page of the document             *)
(*   fault     where the extraction fails                                 *)
(*   i         the loop variable                                          *)
(*   fullText  the text so far                                            *)
(*   fetched   the arguments of pdf.getPage so far                        *)
(*   result    how extractPdfText settled                                 *)
(*   newFiles  the local array of handleFileChange                        *)
StartExtraction(file, pages, fault) ==
    [pc |-> "arrayBuffer", file |-> file, pages |-> pages, fault |-> fault,
     i |-> 0, fullText |-> <<>>, fetched |-> <<>>, result |-> Pending,
     newFiles |-> <<>>]

InitPdf ==
    /\ IngestInit
    /\ recon = NoRecon
    /\ pptx = NoPptx
    /\ chat = NoChat
    /\ \E pages \in Documents : \E fault \in Faults(Len(pages)) :
          pdf = StartExtraction(PdfFile, pages, fault)

numPages(p) == Len(p.pages)

\* extractPdfText settles and handleFileChange resumes after its await: the
\* record is pushed or the message is set, the loop over the single file ends,
\* setFiles appends newFiles
Settle(p, result) ==
    LET newFiles == IF result.kind = "return"
                    THEN Append(p.newFiles, PdfRecord(p.file, result.text))
                    ELSE p.newFiles
    IN  /\ pdf' = [p EXCEPT !.pc = "done", !.result = result, !.newFiles = newFiles]
        /\ error' = IF result.kind = "return" THEN error
                    ELSE Message(OrFallback(result.message))
        /\ files' = AppendFiles(files, newFiles)
        /\ UNCHANGED <<selectedFileIndices, calls, removals, recon, otherVars>>

Suspend(p) ==
    /\ pdf' = p
    /\ UNCHANGED <<ingestVars, recon, otherVars>>

\* for (let i = 1; i <= pdf.numPages; i++): the test of the loop with i, then
\* pdf.getPage(i) or return fullText
LoopFrom(p, i) ==
    IF i <= numPages(p)
    THEN Suspend([p EXCEPT !.pc = "getPage", !.i = i, !.fetched = Append(@, i)])
    ELSE Settle([p EXCEPT !.i = i], Returned(p.fullText))

\* await file.arrayBuffer() resolves: pdfjs.getDocument
ReadResolved ==
    /\ pdf.pc = "arrayBuffer"
    /\ pdf.fault.at # "read"
    /\ Suspend([pdf EXCEPT !.pc = "getDocument"])

\* await file.arrayBuffer() rejects, outside the try
ReadRejected ==
    /\ pdf.pc = "arrayBuffer"
    /\ pdf.fault.at = "read"
    /\ Settle(pdf, Thrown(pdf.fault.message))

\* await loadingTask.promise resolves: let fullText = '', the loop starts
DocumentLoaded ==
    /\ pdf.pc = "getDocument"
    /\ pdf.fault.at # "getDocument"
    /\ LoopFrom([pdf EXCEPT !.fullText = <<>>], 1)

DocumentRejected ==
    /\ pdf.pc = "getDocument"
    /\ pdf.fault.at = "getDocument"
    /\ Settle(pdf, Caught(pdf.fullText))

Fails(p, at) == p.fault.at = at /\ p.fault.page = p.i

\* await pdf.getPage(i) resolves: page.getTextContent()
PageLoaded ==
    /\ pdf.pc = "getPage"
    /\ ~Fails(pdf, "getPage")
    /\ Suspend([pdf EXCEPT !.pc = "getTextContent"])

PageRejected ==
    /\ pdf.pc = "getPage"
    /\ Fails(pdf, "getPage")
    /\ Settle(pdf, Caught(pdf.fullText))

\* await page.getTextContent() resolves: the page is reconstructed, its block
\* added to fullText, the loop goes on
TextContentLoaded ==
    /\ pdf.pc = "getTextContent"
    /\ ~Fails(pdf, "getTextContent")
    /\ LoopFrom([pdf EXCEPT !.fullText = @ \o Block(pdf.i, PageText(pdf.pages[pdf.i]))],
                pdf.i + 1)

TextContentRejected ==
    /\ pdf.pc = "getTextContent"
    /\ Fails(pdf, "getTextContent")
    /\ Settle(pdf, Caught(pdf.fullText))

NextPdf ==
    \/ ReadResolved
    \/ ReadRejected
    \/ DocumentLoaded
    \/ DocumentRejected
    \/ PageLoaded
    \/ PageRejected
    \/ TextContentLoaded
    \/ TextContentRejected

SpecPdf == InitPdf /\ [][NextPdf]_vars

(* ====================================================================== *)
(*                 the claims on the reconstruction of a page             *)
(* ====================================================================== *)

(* ---- what the specification says of a page, in its own words --------- *)
\* a fragment whose text is empty or only white space
BlankFragment(item) == \A i \in 1..Len(item.str) : item.str[i] \in WhiteSpace

\* two vertical origins differ by strictly less than five
Close(y1, y2) == y1 - y2 < 5 /\ y2 - y1 < 5

Range(s) == { s[i] : i \in 1..Len(s) }

\* the rearrangements of an array
Arrangements(a) ==
    LET n == Len(a)
        bijections == { p \in [1..n -> 1..n] : \A i, j \in 1..n : p[i] = p[j] => i = j }
    IN  { [i \in 1..n |-> a[p[i]]] : p \in bijections }

\* the groups as a partition, whatever the order of the groups and within them
Partition(lines) == { Range(lines[g].items) : g \in 1..Len(lines) }

\* the pieces of a text between its newlines; the piece after the last newline
\* is the last element
RECURSIVE Pieces(_, _)
Pieces(t, piece) ==
    IF Len(t) = 0 THEN <<piece>>
    ELSE IF Head(t) = "\n" THEN <<piece>> \o Pieces(Tail(t), <<>>)
    ELSE Pieces(Tail(t), Append(piece, Head(t)))

\* the lines of a text in which every line ends with a newline
TextLines(t) ==
    LET p == Pieces(t, <<>>)
    IN  SubSeq(p, 1, Len(p) - 1)

NewLines(t) == Cardinality({ i \in 1..Len(t) : t[i] = "\n" })

\* the characters of a text other than white space, in order
RECURSIVE Letters(_)
Letters(t) ==
    IF Len(t) = 0 THEN <<>>
    ELSE IF Head(t) \in WhiteSpace THEN Letters(Tail(t))
    ELSE <<Head(t)>> \o Letters(Tail(t))

\* every fragment with a letter has a letter of its own
FragmentOf(letter) == CHOOSE f \in Fragments : letter \in Range(f.str)

GroupLetters(group) == UNION { Range(Letters(group.items[i].str)) : i \in 1..Len(group.items) }

\* the group a line of the page text was made of
GroupOfLine(t) ==
    CHOOSE g \in 1..Len(recon.lines) : GroupLetters(recon.lines[g]) = Range(Letters(t))

\* a step of the grouping pass, and the fragment it handles
GroupingStep ==
    /\ recon.pc = "group"
    /\ recon'.pc = "group"
    /\ recon'.run = recon.run
    /\ recon'.k = recon.k + 1

Emitting == recon.pc \in {"emit", "done"}
PageDone == recon.pc = "done"

(* C13: the grouping is one greedy pass in arrival order: a fragment that *)
(* is not blank joins the first group, in order of creation, whose        *)
(* representative y is strictly less than 5 from its own, even when a     *)
(* later group is closer; when no group is that close it starts a new     *)
(* group whose representative is its own y; the representative of a group *)
(* never changes.                                                         *)
C13_GreedyFirstMatch ==
    [][ /\ GroupingStep /\ ~BlankFragment(recon.items[recon.k]) =>
            LET item == recon.items[recon.k]
                old == recon.lines
                new == recon'.lines
                near == { g \in 1..Len(old) : Close(old[g].key, item.y) }
            IN  IF near = {}
                THEN new = Append(old, [key |-> item.y, items |-> <<item>>])
                ELSE LET first == CHOOSE g \in near : \A h \in near : g <= h
                     IN  /\ Len(new) = Len(old)
                         /\ new[first].items = Append(old[first].items, item)
                         /\ \A g \in 1..Len(old) : g # first => new[g] = old[g]
        /\ recon'.run = recon.run =>
            /\ Len(recon'.lines) >= Len(recon.lines)
            /\ \A g \in 1..Len(recon.lines) : recon'.lines[g].key = recon.lines[g].key
      ]_vars

\* the fragment just handled joined a group although a later group is closer
C13_Witness ==
    /\ recon.pc = "group"
    /\ recon.k > 1
    /\ LET item == recon.items[recon.k - 1]
       IN  \E g, h \in 1..Len(recon.lines) :
              /\ g < h
              /\ Len(recon.lines[g].items) > 1
              /\ recon.lines[g].items[Len(recon.lines[g].items)] = item
              /\ Abs(recon.lines[h].key - item.y) < Abs(recon.lines[g].key - item.y)
              /\ Close(recon.lines[h].key, item.y)

(* C14, as stated: the partition of a page's fragments into groups is the *)
(* same whatever the order in which the fragments arrive.                 *)
C14_OrderIndependent ==
    PageDone =>
        \A a \in Arrangements(recon.given) :
            Partition(GroupAll(<<>>, a)) = Partition(recon.lines)

NonBlank(items) == { f \in Range(items) : ~BlankFragment(f) }

\* closeness is transitive among the fragments that are not blank
TransitiveCloseness(items) ==
    \A a, b, c \in NonBlank(items) :
        Close(a.y, b.y) /\ Close(b.y, c.y) => Close(a.y, c.y)

\* no two fragments of a line share their x
DistinctX(lines) ==
    \A g \in 1..Len(lines) : \A i, j \in 1..Len(lines[g].items) :
        lines[g].items[i].x = lines[g].items[j].x => i = j

(* C14, amended: when closeness (y differing by less than 5) is           *)
(* transitive among the fragments of the page that are not blank, the     *)
(* partition into groups is the same whatever the order of arrival, and   *)
(* so is the page text when moreover no two fragments of a line have the  *)
(* same x.                                                                *)
C14_OrderIndependentWhenTransitive ==
    PageDone /\ recon.run = 1 /\ TransitiveCloseness(recon.given) =>
        \A a \in Arrangements(recon.given) :
            /\ Partition(GroupAll(<<>>, a)) = Partition(recon.lines)
            /\ DistinctX(recon.lines) => PageText(a) = recon.pageText

\* three fragments on two lines, transitive closeness, arrived out of order
C14_Witness ==
    /\ PageDone
    /\ Len(recon.given) = 3
    /\ Cardinality(NonBlank(recon.given)) = 3
    /\ TransitiveCloseness(recon.given)
    /\ Len(recon.lines) = 2
    /\ DistinctX(recon.lines)
    /\ recon.given[1].y < recon.given[2].y
    /\ recon.given[3].y < recon.given[2].y

(* C15: the lines are emitted in strictly descending order of the y of    *)
(* their group, whatever the order of arrival, each group once.           *)
C15_LinesDescending ==
    Emitting =>
        LET T == TextLines(recon.pageText)
        IN  /\ \A i, j \in 1..Len(T) :
                  i < j => recon.lines[GroupOfLine(T[i])].key > recon.lines[GroupOfLine(T[j])].key
            /\ PageDone => Len(T) = Len(recon.lines)

\* fragments at y = 650, 700, 600, in that order of arrival
C15_Witness ==
    /\ PageDone
    /\ [i \in 1..Len(recon.given) |-> recon.given[i].y] = <<650, 700, 600>>
    /\ recon.pageText = <<"I", "\n", "H", "\n", "A", "\n">>

(* C16: within every emitted line the fragments come in ascending (non-   *)
(* decreasing) order of x, whatever the order of arrival, each fragment   *)
(* of the group once.                                                     *)
C16_FragmentsAscending ==
    Emitting =>
        LET T == TextLines(recon.pageText)
        IN  \A n \in 1..Len(T) :
                LET l == Letters(T[n])
                    members == recon.lines[GroupOfLine(T[n])].items
                IN  /\ \A i, j \in 1..Len(l) :
                          i < j => FragmentOf(l[i]).x <= FragmentOf(l[j]).x
                    /\ Len(l) = Len(members)

\* a line whose fragments arrived in descending order of x
C16_Witness ==
    /\ PageDone
    /\ Len(recon.given) = 3
    /\ \A i \in 1..2 : recon.given[i].x > recon.given[i + 1].x
    /\ Len(TextLines(recon.pageText)) = 1

\* the spacing the specification gives for a gap
SpacesFor(g) ==
    IF g > 20 THEN 4
    ELSE IF g > 2 /\ g <= 20 THEN 1
    ELSE 0

Spaces(n) == [i \in 1..n |-> " "]

\* the specification's gap: width counts as 0 when absent
GapBetween(current, next) ==
    next.x - (current.x + (IF "width" \in DOMAIN current THEN current.width ELSE 0))

RECURSIVE SpacedText(_, _)
SpacedText(s, j) ==
    IF j > Len(s) THEN <<>>
    ELSE s[j].str
         \o (IF j < Len(s) THEN Spaces(SpacesFor(GapBetween(s[j], s[j + 1]))) ELSE <<>>)
         \o SpacedText(s, j + 1)

(* C17: between two fragments next to each other in a line the gap is     *)
(* next.x - (current.x + current.w), w being 0 when absent; four spaces   *)
(* are inserted when the gap exceeds 20, one when it exceeds 2 and is at  *)
(* most 20, nothing when it is 2 or less, negative included; nothing      *)
(* follows the last fragment of the line.                                 *)
C17_Spacing ==
    Emitting =>
        LET T == TextLines(recon.pageText)
        IN  \A n \in 1..Len(T) :
                T[n] = SpacedText(recon.lines[GroupOfLine(T[n])].items, 1)

\* a fragment without width, four spaces after a gap of 30, nothing after a
\* gap of 1
C17_Witness ==
    /\ PageDone
    /\ recon.given = <<Frag(<<"E", " ">>, 31, 600), Frag(<<"a">>, 0, 600),
                       FragW(<<"D">>, 30, 600, 0)>>
    /\ recon.pageText = <<"a", " ", " ", " ", " ", "D", "E", " ", "\n">>

(* C18, as stated: the page text is the lines' text joined by newline:    *)
(* k >= 1 lines give k texts separated by k - 1 newlines.                 *)
C18_JoinedByNewline ==
    PageDone /\ Len(recon.lines) >= 1 =>
        NewLines(recon.pageText) = Len(recon.lines) - 1

RECURSIVE Terminated(_, _)
Terminated(lines, ys) ==
    IF Len(ys) = 0 THEN <<>>
    ELSE SpacedText(lines[EntryOf(lines, Head(ys))].items, 1) \o <<"\n">>
         \o Terminated(lines, Tail(ys))

(* C18, amended: the page text is the lines' text, each followed by one   *)
(* newline: k lines give k texts and k newlines, the last newline ending  *)
(* the page text.                                                         *)
C18_EachLineTerminated ==
    PageDone =>
        /\ recon.pageText = Terminated(recon.lines, recon.order)
        /\ NewLines(recon.pageText) = Len(recon.lines)

\* a page of three lines
C18_Witness ==
    /\ PageDone
    /\ Len(recon.lines) = 3
    /\ NewLines(recon.pageText) = 3
    /\ recon.pageText[Len(recon.pageText)] = "\n"

(* C19: the reconstruction has no error condition: it runs to the end on  *)
(* every page, and a page with no fragment, or with blank fragments only, *)
(* gives the empty string.  The next step is looked for on the first run  *)
(* over each array; the later runs take the same steps on the same array. *)
C19_NoErrorEmptyPage ==
    /\ recon.pc \in {"group", "emit"} /\ recon.run = 1 => ENABLED NextLines
    /\ PageDone /\ NonBlank(recon.given) = {} => recon.pageText = <<>>

\* a page of blank fragments only
C19_Witness ==
    /\ PageDone
    /\ Len(recon.given) = 2
    /\ recon.given[1] # recon.given[2]
    /\ NonBlank(recon.given) = {}
    /\ recon.pageText = <<>>

(* C20: the page text is determined by the sequence of fragments; a run   *)
(* leaves the array of fragments as it was given, and a second run over   *)
(* the same array gives the same text as the first.                       *)
C20_SameTextSameInput ==
    /\ recon.pc # "idle" => recon.items = recon.given
    /\ PageDone => recon.pageText = PageText(recon.given)
    /\ PageDone /\ recon.run > 1 => recon.pageText = recon.first

\* a second run is over, on a page of two lines with a line sorted in place
C20_Witness ==
    /\ PageDone
    /\ recon.run = 2
    /\ Len(recon.lines) = 2
    /\ \E g \in 1..2 : /\ Len(recon.lines[g].items) = 2
                       /\ recon.lines[g].items[1] = recon.given[3]
    /\ recon.pageText = recon.first

(* ====================================================================== *)
(*                  the claims on the document as a whole                 *)
(* ====================================================================== *)
Extracted == pdf.pc = "done" /\ pdf.result.kind = "return"

\* the marker line of page i, as the specification writes it
Numerals == <<"1", "2", "3", "4", "5", "6", "7", "8", "9">>
MarkerLine(i) == <<"--- Page ", Numerals[i], " ---">>

IsMarker(line) == \E i \in 1..Len(Numerals) : line = MarkerLine(i)

\* the lines of the blocks of pages i..n: the marker line of each page and the
\* lines of its text
RECURSIVE BlockLines(_, _)
BlockLines(pages, i) ==
    IF i > Len(pages) THEN <<>>
    ELSE <<MarkerLine(i)>> \o TextLines(PageText(pages[i])) \o BlockLines(pages, i + 1)

\* a sequence of lines without its empty lines
RECURSIVE NonEmptyLines(_)
NonEmptyLines(l) ==
    IF Len(l) = 0 THEN <<>>
    ELSE IF Len(Head(l)) = 0 THEN NonEmptyLines(Tail(l))
    ELSE <<Head(l)>> \o NonEmptyLines(Tail(l))

(* C11: the pages of a document of n pages are processed in ascending     *)
(* order 1..n, and the text returned is the blocks of the pages in that   *)
(* order: the marker line --- Page i --- followed by the text of page i,  *)
(* blank lines between a block and the next.                              *)
C11_PagesInOrder ==
    /\ pdf.pc # "idle" =>
          /\ pdf.fetched = [k \in 1..Len(pdf.fetched) |-> k]
          /\ Len(pdf.fetched) <= numPages(pdf)
    /\ Extracted =>
          LET L == TextLines(pdf.result.text)
          IN  /\ pdf.fetched = [k \in 1..numPages(pdf) |-> k]
              /\ NonEmptyLines(L) = BlockLines(pdf.pages, 1)
              /\ L[1] = MarkerLine(1)
              /\ \A p \in 2..Len(L) : IsMarker(L[p]) => Len(L[p - 1]) = 0

\* a document of three pages with text, extracted
C11_Witness ==
    /\ Extracted
    /\ numPages(pdf) = 3
    /\ pdf.pages[1] # pdf.pages[2]
    /\ \A i \in 1..3 : Len(PageText(pdf.pages[i])) > 0
    /\ Len(files) = 1
    /\ files[1].data = pdf.result.text

DecodingFails == pdf.fault.at \in {"getDocument", "getPage", "getTextContent"}

(* C12: the extraction of a document is all or nothing: when the decoding *)
(* of the document or of one of its pages fails, extractPdfText fails as  *)
(* a whole, with an error that carries a message for the user; no partial *)
(* text is returned, even when earlier pages were decoded, and the file   *)
(* gives no UploadedFile record.                                          *)
C12_AllOrNothing ==
    /\ pdf.pc \notin {"idle", "done"} => files = <<>> /\ pdf.result = Pending
    /\ pdf.pc = "done" /\ DecodingFails =>
          /\ pdf.result.kind = "throw"
          /\ pdf.result.text = <<>>
          /\ pdf.result.message = PdfExtractMsg
          /\ error = Message(PdfExtractMsg)
          /\ pdf.newFiles = <<>>
          /\ files = <<>>
    /\ pdf.pc = "done" /\ pdf.fault.at = "read" =>
          /\ pdf.result.kind = "throw"
          /\ files = <<>>

\* the third page fails after two pages with text were decoded
C12_Witness ==
    /\ pdf.pc = "done"
    /\ pdf.fault.at = "getTextContent"
    /\ pdf.fault.page = 3
    /\ pdf.fullText = Block(1, PageText(pdf.pages[1])) \o Block(2, PageText(pdf.pages[2]))
    /\ Len(PageText(pdf.pages[1])) > 0
    /\ pdf.result.kind = "throw"
    /\ files = <<>>

(* ====================================================================== *)
(*          further claims on the reconstruction of a page                *)
(* ====================================================================== *)
\* an array without its blank fragments
RECURSIVE WithoutBlanks(_)
WithoutBlanks(items) ==
    IF Len(items) = 0 THEN <<>>
    ELSE IF BlankFragment(Head(items)) THEN WithoutBlanks(Tail(items))
    ELSE <<Head(items)>> \o WithoutBlanks(Tail(items))

\* the page is being reconstructed
OnPage == recon.pc \in {"group", "emit", "done"}

(* C21: fragments whose text is empty or white space only are discarded   *)
(* before the grouping: none is ever a member of a group, none gives a    *)
(* group its representative, and the page text is the text of the page    *)
(* without them, so they change neither the order nor the spacing of the  *)
(* other fragments.                                                       *)
C21_BlanksDiscarded ==
    /\ OnPage =>
          \A g \in 1..Len(recon.lines) :
              /\ \A i \in 1..Len(recon.lines[g].items) : ~BlankFragment(recon.lines[g].items[i])
              /\ \E f \in NonBlank(recon.given) : recon.lines[g].key = f.y
    /\ PageDone => recon.pageText = PageText(WithoutBlanks(recon.given))

\* a blank fragment at y = 604 arrives before fragments at 600 and 607, which
\* it would have joined into one line had it made a group
C21_Witness ==
    /\ PageDone
    /\ Len(recon.given) = 3
    /\ BlankFragment(recon.given[1])
    /\ recon.given[1].y = 604
    /\ recon.given[2].y = 600
    /\ recon.given[3].y = 607
    /\ Len(TextLines(recon.pageText)) = 2

(* C27: at every step of the grouping of a page, two distinct groups have *)
(* representatives at least 5 apart, and every fragment of a group has    *)
(* its y strictly less than 5 from the representative of the group, so    *)
(* that two fragments of one group are less than 10 apart.                *)
C27_GroupsApart ==
    OnPage =>
        /\ \A g, h \in 1..Len(recon.lines) :
              g # h => ~Close(recon.lines[g].key, recon.lines[h].key)
        /\ \A g \in 1..Len(recon.lines) :
              \A i, j \in 1..Len(recon.lines[g].items) :
                  /\ Close(recon.lines[g].items[i].y, recon.lines[g].key)
                  /\ recon.lines[g].items[i].y - recon.lines[g].items[j].y < 10

\* two groups 7 apart, one of them with fragments of different y, while the
\* grouping is still going on
C27_Witness ==
    /\ recon.pc = "group"
    /\ recon.k = 4
    /\ Len(recon.items) = 3
    /\ Len(recon.lines) = 2
    /\ Abs(recon.lines[1].key - recon.lines[2].key) = 7
    /\ \E g \in 1..2 : /\ Len(recon.lines[g].items) = 2
                       /\ recon.lines[g].items[1].y # recon.lines[g].items[2].y

\* how many times v occurs in s
Count(s, v) == Cardinality({ i \in 1..Len(s) : s[i] = v })

\* the members of all groups
RECURSIVE Members(_)
Members(lines) ==
    IF Len(lines) = 0 THEN <<>>
    ELSE Head(lines).items \o Members(Tail(lines))

\* the texts of the fragments of an array, one after the other
RECURSIVE Texts(_)
Texts(items) ==
    IF Len(items) = 0 THEN <<>>
    ELSE Head(items).str \o Texts(Tail(items))

(* C28: no fragment is lost or repeated: every fragment that is not blank *)
(* is in exactly one group, its text is once in the page text, and the    *)
(* page text is made of the texts of fragments, of the spaces inserted    *)
(* between them and of newlines only.                                     *)
C28_Conservation ==
    /\ OnPage =>
          LET handled == IF recon.pc = "group"
                         THEN SubSeq(recon.items, 1, recon.k - 1)
                         ELSE recon.items
              members == Members(recon.lines)
          IN  \A f \in Range(recon.items) \cup Range(members) :
                  Count(members, f)
                      = (IF BlankFragment(f) THEN 0 ELSE Count(handled, f))
    /\ PageDone =>
          LET kept == Letters(Texts(WithoutBlanks(recon.given)))
          IN  /\ \A l \in Range(kept) : Count(recon.pageText, l) = Count(kept, l)
              /\ Range(recon.pageText) \subseteq Range(kept) \cup {" ", "\n"}

\* a page with the same fragment twice, on a line of three fragments
C28_Witness ==
    /\ PageDone
    /\ Len(recon.given) = 3
    /\ recon.given[1] = recon.given[3]
    /\ recon.given[1] # recon.given[2]
    /\ NonBlank(recon.given) = Range(recon.given)
    /\ Len(recon.lines) = 1
    /\ Count(recon.pageText, recon.given[1].str[1]) = 2

(* ====================================================================== *)
(*                            extractPptxText                             *)
(* ====================================================================== *)
(* One PPTX file picked alone: extractPptxText from JSZip.loadAsync to    *)
(* its return or rejection, and the route of handleFileChange that awaits *)
(* it.  The name of an entry of the archive is a tuple whose first        *)
(* element is its path up to the number, followed by the digits of the    *)
(* number and by the extension; the XML of an entry is a tuple of tags    *)
(* (one element each) and of the characters of its text.                  *)

(* ----------------------------- bounds --------------------------------- *)
\* entries of one archive
MaxEntries == 3

(* -------------------------- names of entries --------------------------- *)
SlidePrefix == <<"ppt/slides/slide">>
NotesPrefix == <<"ppt/notesSlides/notesSlide">>
DotXml == <<".xml">>
DigitSet == {"0", "1", "2", "3", "4", "5", "6", "7", "8", "9"}

SlideName(digits) == SlidePrefix \o digits \o DotXml
NotesName(digits) == NotesPrefix \o digits \o DotXml
ContentTypesName == <<"[Content_Types].xml">>

(* ----------------------------- the XML --------------------------------- *)
OpenT == "<a:t>"
CloseT == "</a:t>"
Tags == {OpenT, CloseT, "<a:p>", "</a:p>", "<a:br/>", "<p:pic/>"}

\* a text run
Run(text) == <<OpenT>> \o text \o <<CloseT>>

\* a slide with one run, a slide with two runs, a slide of a picture without
\* any run, and two notes parts
IntroXml == <<"<a:p>">> \o Run(<<"I", "n">>) \o <<"</a:p>">>
TwoRunsXml == <<"<a:p>">> \o Run(<<"A">>) \o <<"<a:br/>">> \o Run(<<"B">>) \o <<"</a:p>">>
PictureXml == <<"<a:p>", "<p:pic/>", "</a:p>">>
NotesXml == <<"<a:p>">> \o Run(<<"r">>) \o Run(<<"X">>) \o <<"</a:p>">>
OtherNotesXml == Run(<<"n">>)

Entry(name, content) == [name |-> name, content |-> content]

Entries ==
    { Entry(SlideName(<<"1">>), IntroXml),
      Entry(SlideName(<<"1", "0">>), TwoRunsXml),
      Entry(SlideName(<<"3">>), PictureXml),
      Entry(NotesName(<<"1">>), NotesXml),
      Entry(NotesName(<<"3">>), OtherNotesXml),
      Entry(ContentTypesName, <<"<a:p>">>) }

\* zip.files: the entries of an archive in the order of the archive, no two
\* with the same name
Archives(n) ==
    UNION { { a \in [1..m -> Entries] : \A i, j \in 1..m : a[i] = a[j] => i = j } :
            m \in 0..n }

\* Object.keys(zip.files)
Names(zip) == [i \in 1..Len(zip) |-> zip[i].name]

\* zip.files[name]: the position of the entry of that name, 0 when undefined
Lookup(zip, name) ==
    IF \E i \in 1..Len(zip) : zip[i].name = name
    THEN CHOOSE i \in 1..Len(zip) : zip[i].name = name
    ELSE 0

(* ------------------------- the slides in order ------------------------- *)
\* name.startsWith("ppt/slides/slide") && name.endsWith(".xml")
IsSlideFile(name) == startsWith(name, SlidePrefix) /\ endsWith(name, DotXml)

RECURSIVE Filter(_)
Filter(names) ==
    IF Len(names) = 0 THEN <<>>
    ELSE IF IsSlideFile(Head(names)) THEN <<Head(names)>> \o Filter(Tail(names))
    ELSE Filter(Tail(names))

\* the digits at the front of a tuple
RECURSIVE LeadingDigits(_)
LeadingDigits(s) ==
    IF Len(s) = 0 \/ Head(s) \notin DigitSet THEN <<>>
    ELSE <<Head(s)>> \o LeadingDigits(Tail(s))

Unknown == <<"?", "?">>

\* slideFile.match(/slide(\d+)\.xml/)?.[1] || "??", for the name of a slide file
slideNum(slideFile) ==
    LET rest == Tail(slideFile)
        digits == LeadingDigits(rest)
    IN  IF Len(digits) > 0 /\ startsWith(SubSeq(rest, Len(digits) + 1, Len(rest)), DotXml)
        THEN digits
        ELSE Unknown

\* the value of a number written in digits
RECURSIVE Value(_)
Value(digits) ==
    IF Len(digits) = 0 THEN 0
    ELSE 10 * Value(SubSeq(digits, 1, Len(digits) - 1))
         + (CHOOSE d \in 0..9 : Digits[d + 1] = digits[Len(digits)])

slideFilesSorted(zip) ==
    LET a == Filter(Names(zip))
        n == Len(a)
        v(i) == Value(LeadingDigits(Tail(a[i])))
        place(i) == 1 + Cardinality({ j \in 1..n : v(j) < v(i) \/ (v(j) = v(i) /\ j < i) })
    IN  [p \in 1..n |-> a[CHOOSE i \in 1..n : place(i) = p]]
\* Object.keys(zip.files).filter(...)
slideFiles(zip) == Filter(Names(zip))

(* --------------------------- the text runs ----------------------------- *)
\* the end of the run that opens at i: the position of the </a:t> that follows
\* <a:t> and characters other than '<'; 0 when what opens at i is no run
RunEnd(content, i) ==
    IF content[i] # OpenT THEN 0
    ELSE LET ends == { j \in (i + 1)..Len(content) :
                          /\ content[j] = CloseT
                          /\ \A k \in (i + 1)..(j - 1) : content[k] \notin Tags }
         IN  IF ends = {} THEN 0 ELSE CHOOSE j \in ends : TRUE

\* content.match(/<a:t>([^<]*)<\/a:t>/g) from position i on: the matches from
\* left to right; the empty tuple is null
RECURSIVE MatchFrom(_, _)
MatchFrom(content, i) ==
    IF i > Len(content) THEN <<>>
    ELSE LET j == RunEnd(content, i)
         IN  IF j = 0 THEN MatchFrom(content, i + 1)
             ELSE <<SubSeq(content, i, j)>> \o MatchFrom(content, j + 1)

matches(content) == MatchFrom(content, 1)

\* m.replace(/<\/?a:t>/g, "")
RECURSIVE Unwrap(_)
Unwrap(m) ==
    IF Len(m) = 0 THEN <<>>
    ELSE IF Head(m) \in {OpenT, CloseT} THEN Unwrap(Tail(m))
    ELSE <<Head(m)>> \o Unwrap(Tail(m))

\* matches.map(m => m.replace(...)).join(" ")
RECURSIVE JoinRuns(_)
JoinRuns(ms) ==
    IF Len(ms) = 0 THEN <<>>
    ELSE IF Len(ms) = 1 THEN Unwrap(ms[1])
    ELSE Unwrap(ms[1]) \o <<" ">> \o JoinRuns(Tail(ms))

\* `--- Slide ${slideNum} ---\n` + ... + "\n", added when matches is not null
SlideBlock(num, content) ==
    IF Len(matches(content)) > 0
    THEN <<"--- Slide ">> \o num \o <<" ---", "\n">> \o JoinRuns(matches(content)) \o <<"\n">>
    ELSE <<>>

\* `[Slide ${slideNum} Notes: ${...}]\n`, added when notesMatches is not null
NotesLine(num, notesContent) ==
    IF Len(matches(notesContent)) > 0
    THEN <<"[Slide ">> \o num \o <<" Notes: ">> \o JoinRuns(matches(notesContent)) \o <<"]", "\n">>
    ELSE <<>>

\* `ppt/notesSlides/notesSlide${slideNum}.xml`
notesFile(num) == NotesPrefix \o num \o DotXml

(* -------------------- where the extraction fails ----------------------- *)
\*   open   JSZip.loadAsync(file) rejects
\*   read   zip.files[name].async("string") rejects, for the entry at
\*          position entry of the archive
NoZipFault == [at |-> "none", entry |-> 0]
ZipFaults(zip) ==
    {NoZipFault, [at |-> "open", entry |-> 0]}
    \cup { [at |-> "read", entry |-> i] : i \in 1..Len(zip) }

\* err.message of a rejection of JSZip
ZipErrorMsg == <<"Corrupted zip or bug: unexpected signature">>

PptxFile == File(CPptx, NoMime, 1024, "good")

PropagatedReturningText(fullText) == Returned(fullText)
\* extractPptxText has no try: a rejection of an await rejects its promise
Propagated(fullText) == Thrown(ZipErrorMsg)

(* pptx:                                                                  *)
(*   pc        the await extractPptxText is suspended at: "loadAsync",    *)
(*             "slide" (the slide file at pos is read), "notes" (its      *)
(*             notes part is read); "done" when handleFileChange returned *)
(*   file      the File                                                   *)
(*   zip       zip.files                                                  *)
(*   fault     where the extraction fails                                 *)
(*   pos       the position of the loop in slideFiles                     *)
(*   fullText  the text so far                                            *)
(*   result    how extractPptxText settled                                *)
(*   newFiles  the local array of handleFileChange                        *)
(*   surfaced  the messages handleFileChange passed to setError           *)
StartPptx(file, zip, fault) ==
    [pc |-> "loadAsync", file |-> file, zip |-> zip, fault |-> fault,
     pos |-> 0, fullText |-> <<>>, result |-> Pending, newFiles |-> <<>>,
     surfaced |-> <<>>]

InitPptx ==
    /\ IngestInit
    /\ recon = NoRecon
    /\ pdf = NoPdf
    /\ chat = NoChat
    /\ \E zip \in Archives(MaxEntries) : \E fault \in ZipFaults(zip) :
          pptx = StartPptx(PptxFile, zip, fault)

\* extractPptxText settles and handleFileChange resumes after its await: the
\* record is pushed or the message is set, the loop over the single file ends,
\* setFiles appends newFiles
SettlePptx(p, result) ==
    LET newFiles == IF result.kind = "return"
                    THEN Append(p.newFiles, PptxRecord(p.file, result.text))
                    ELSE p.newFiles
        surfaced == IF result.kind = "return" THEN p.surfaced
                    ELSE Append(p.surfaced, PptxMsg)
    IN  /\ pptx' = [p EXCEPT !.pc = "done", !.result = result, !.newFiles = newFiles,
                             !.surfaced = surfaced]
        /\ error' = IF result.kind = "return" THEN error ELSE Message(PptxMsg)
        /\ files' = AppendFiles(files, newFiles)
        /\ UNCHANGED <<selectedFileIndices, calls, removals, pdfVars, chat>>

SuspendPptx(p) ==
    /\ pptx' = p
    /\ UNCHANGED <<ingestVars, pdfVars, chat>>

\* for (const slideFile of slideFiles): the slide file at pos is read, or the
\* loop is over and fullText is returned
SlidesFrom(p, pos) ==
    IF pos <= Len(slideFiles(p.zip))
    THEN SuspendPptx([p EXCEPT !.pc = "slide", !.pos = pos])
    ELSE SettlePptx([p EXCEPT !.pos = pos], Returned(p.fullText))

SlideFile(p) == slideFiles(p.zip)[p.pos]
SlideEntry(p) == Lookup(p.zip, SlideFile(p))
NotesEntry(p) == Lookup(p.zip, notesFile(slideNum(SlideFile(p))))

ReadFails(p, entry) == p.fault.at = "read" /\ p.fault.entry = entry

\* await JSZip.loadAsync(file) resolves: let fullText = "", the loop starts
ArchiveOpened ==
    /\ pptx.pc = "loadAsync"
    /\ pptx.fault.at # "open"
    /\ SlidesFrom([pptx EXCEPT !.fullText = <<>>], 1)

ArchiveRejected ==
    /\ pptx.pc = "loadAsync"
    /\ pptx.fault.at = "open"
    /\ SettlePptx(pptx, Propagated(pptx.fullText))

\* await zip.files[slideFile].async("string") resolves: the block of the slide
\* is added; its notes part is read if the archive has it, else the loop goes on
SlideRead ==
    /\ pptx.pc = "slide"
    /\ ~ReadFails(pptx, SlideEntry(pptx))
    /\ LET p == [pptx EXCEPT !.fullText =
                    @ \o SlideBlock(slideNum(SlideFile(pptx)), pptx.zip[SlideEntry(pptx)].content)]
       IN  IF NotesEntry(pptx) # 0
           THEN SuspendPptx([p EXCEPT !.pc = "notes"])
           ELSE SlidesFrom(p, pptx.pos + 1)

SlideReadRejected ==
    /\ pptx.pc = "slide"
    /\ ReadFails(pptx, SlideEntry(pptx))
    /\ SettlePptx(pptx, Propagated(pptx.fullText))

\* await zip.files[notesFile].async("string") resolves: the notes line is
\* added, the loop goes on
NotesRead ==
    /\ pptx.pc = "notes"
    /\ ~ReadFails(pptx, NotesEntry(pptx))
    /\ SlidesFrom([pptx EXCEPT !.fullText =
                      @ \o NotesLine(slideNum(SlideFile(pptx)), pptx.zip[NotesEntry(pptx)].content)],
                  pptx.pos + 1)

NotesReadRejected ==
    /\ pptx.pc = "notes"
    /\ ReadFails(pptx, NotesEntry(pptx))
    /\ SettlePptx(pptx, Propagated(pptx.fullText))

NextPptx ==
    \/ ArchiveOpened
    \/ ArchiveRejected
    \/ SlideRead
    \/ SlideReadRejected
    \/ NotesRead
    \/ NotesReadRejected

SpecPptx == InitPptx /\ [][NextPptx]_vars

(* ====================================================================== *)
(*                     the claims on extractPptxText                      *)
(* ====================================================================== *)
PptxExtracted == pptx.pc = "done" /\ pptx.result.kind = "return"

\* the lines of the text extractPptxText returned
PptxLines == TextLines(pptx.result.text)

\* the positions in the archive of its slide entries ppt/slides/slideN.xml
SlidePositions(zip) ==
    { i \in 1..Len(zip) : /\ Len(zip[i].name) >= 3
                          /\ zip[i].name[1] = "ppt/slides/slide"
                          /\ zip[i].name[Len(zip[i].name)] = ".xml" }

\* N of the entry ppt/slides/slideN.xml, in digits
NumberOf(name) == SubSeq(name, 2, Len(name) - 1)

\* the position of the notes part of slide N, 0 without one
NotesPartOf(zip, num) ==
    LET parts == { i \in 1..Len(zip) :
                      zip[i].name = <<"ppt/notesSlides/notesSlide">> \o num \o <<".xml">> }
    IN  IF parts = {} THEN 0 ELSE CHOOSE i \in parts : TRUE

\* the texts of the runs of an XML, joined by single spaces
RECURSIVE RunTexts(_, _, _)
RunTexts(content, inRun, first) ==
    IF Len(content) = 0 THEN <<>>
    ELSE IF Head(content) = "<a:t>"
         THEN (IF first THEN <<>> ELSE <<" ">>) \o RunTexts(Tail(content), TRUE, FALSE)
    ELSE IF Head(content) = "</a:t>" THEN RunTexts(Tail(content), FALSE, first)
    ELSE IF inRun THEN <<Head(content)>> \o RunTexts(Tail(content), inRun, first)
    ELSE RunTexts(Tail(content), inRun, first)

JoinedText(content) == RunTexts(content, FALSE, TRUE)

TagLine(num) == <<"--- Slide ">> \o num \o <<" ---">>
IsTagLine(line) == Len(line) > 0 /\ line[1] = "--- Slide "
NotesLineOf(num, content) == <<"[Slide ">> \o num \o <<" Notes: ">> \o JoinedText(content) \o <<"]">>
IsNotesLineOf(num, line) == startsWith(line, <<"[Slide ">> \o num \o <<" Notes: ">>)

(* C22: every slide entry ppt/slides/slideN.xml of the archive gets a     *)
(* block that begins with the tag line --- Slide N ---, N parsed from the *)
(* name of the entry, followed by the text runs of the slide, unwrapped   *)
(* and joined by single spaces.                                           *)
C22_EverySlideTagged ==
    PptxExtracted =>
        \A i \in SlidePositions(pptx.zip) :
            \E l \in 1..(Len(PptxLines) - 1) :
                /\ PptxLines[l] = TagLine(NumberOf(pptx.zip[i].name))
                /\ PptxLines[l + 1] = JoinedText(pptx.zip[i].content)

(* C23: for every slide N whose notes part ppt/notesSlides/notesSlideN.xml *)
(* is in the archive, the line [Slide N Notes: ...] with the notes' text   *)
(* runs joined by single spaces is on its own line in the block of slide   *)
(* N, after the tag and text of slide N and before the next tag; a slide   *)
(* without notes part has no notes line.                                   *)
C23_NotesInOwnBlock ==
    PptxExtracted =>
        \A i \in SlidePositions(pptx.zip) :
            LET num == NumberOf(pptx.zip[i].name)
                part == NotesPartOf(pptx.zip, num)
            IN  IF part # 0
                THEN \E t, n \in 1..Len(PptxLines) :
                        /\ t < n
                        /\ PptxLines[t] = TagLine(num)
                        /\ PptxLines[n] = NotesLineOf(num, pptx.zip[part].content)
                        /\ \A l \in (t + 1)..(n - 1) : ~IsTagLine(PptxLines[l])
                ELSE \A l \in 1..Len(PptxLines) : ~IsNotesLineOf(num, PptxLines[l])

\* the lines of a text that are tag lines, in order
RECURSIVE TagLines(_)
TagLines(lines) ==
    IF Len(lines) = 0 THEN <<>>
    ELSE IF IsTagLine(Head(lines)) THEN <<Head(lines)>> \o TagLines(Tail(lines))
    ELSE TagLines(Tail(lines))

\* the tag lines of the slide entries i..Len(zip) that have a text run, in the
\* order of the archive
RECURSIVE TagsInArchiveOrder(_, _)
TagsInArchiveOrder(zip, i) ==
    IF i > Len(zip) THEN <<>>
    ELSE IF i \in SlidePositions(zip) /\ "<a:t>" \in Range(zip[i].content)
         THEN <<TagLine(NumberOf(zip[i].name))>> \o TagsInArchiveOrder(zip, i + 1)
    ELSE TagsInArchiveOrder(zip, i + 1)

(* C24: the blocks of the slides are in the order in which the archive    *)
(* enumerates its entries, not in the order of the slide numbers, and the *)
(* tag of each block carries the number of its own entry: each tag is     *)
(* followed by the text of the slide of that number.                      *)
C24_EnumerationOrder ==
    PptxExtracted =>
        /\ TagLines(PptxLines) = TagsInArchiveOrder(pptx.zip, 1)
        /\ \A l \in 1..Len(PptxLines) :
              IsTagLine(PptxLines[l]) =>
                  \E i \in SlidePositions(pptx.zip) :
                      /\ PptxLines[l] = TagLine(NumberOf(pptx.zip[i].name))
                      /\ l < Len(PptxLines)
                      /\ PptxLines[l + 1] = JoinedText(pptx.zip[i].content)

\* slide 10 comes before slide 1 in the archive, and in the text
C24_Witness ==
    /\ PptxExtracted
    /\ Len(pptx.zip) = 3
    /\ pptx.zip[1].name = <<"ppt/slides/slide", "1", "0", ".xml">>
    /\ pptx.zip[3].name = <<"ppt/slides/slide", "1", ".xml">>
    /\ PptxLines = << <<"--- Slide ", "1", "0", " ---">>, <<"A", " ", "B">>,
                      <<"--- Slide ", "1", " ---">>, <<"I", "n">> >>

\* the archive cannot be opened, or the read of a slide entry, or of the notes
\* part of a slide of the archive, fails
PptxReadFails ==
    \/ pptx.fault.at = "open"
    \/ /\ pptx.fault.at = "read"
       /\ \/ pptx.fault.entry \in SlidePositions(pptx.zip)
          \/ \E i \in SlidePositions(pptx.zip) :
                NotesPartOf(pptx.zip, NumberOf(pptx.zip[i].name)) = pptx.fault.entry

(* C25: the extraction of a PPTX file is all or nothing: when the archive *)
(* cannot be opened or the read of a slide or notes entry fails,          *)
(* extractPptxText fails as a whole, the text built from earlier slides   *)
(* is not returned, the file gives no UploadedFile record, and exactly    *)
(* one error is surfaced for the file.                                    *)
C25_PptxAllOrNothing ==
    /\ pptx.pc \notin {"idle", "done"} =>
          /\ files = <<>>
          /\ pptx.result = Pending
          /\ pptx.surfaced = <<>>
    /\ pptx.pc = "done" /\ PptxReadFails =>
          /\ pptx.result.kind = "throw"
          /\ pptx.result.text = <<>>
          /\ pptx.newFiles = <<>>
          /\ files = <<>>
          /\ pptx.surfaced = <<PptxMsg>>
          /\ error = Message(PptxMsg)

\* the read of the notes of the second slide fails after the block of the
\* first slide was built
C25_Witness ==
    /\ pptx.pc = "done"
    /\ pptx.fault.at = "read"
    /\ pptx.pos = 2
    /\ Len(pptx.fullText) > 0
    /\ pptx.result.kind = "throw"
    /\ files = <<>>
    /\ error = Message(PptxMsg)

(* ====================================================================== *)
(*              two change events of the file input that overlap          *)
(* ====================================================================== *)
(* A second batch is chosen while the first invocation of                 *)
(* handleFileChange is suspended at an await; files may hold a record of  *)
(* an earlier batch.                                                      *)

(* ----------------------------- bounds --------------------------------- *)
\* files of each of the two batches
MaxOverlapBatch == 2

\* the files of the two batches: one per route, and one that fails
OverlapFiles ==
    { File(APng, PngMime, 1, "good"),
      File(BPdf, NoMime, 1, "good"),
      File(CPptx, NoMime, 1, "good"),
      File(CPptx, NoMime, 1, "corrupt") }

\* the record of an earlier batch: an image picked under the name d.txt
EarlierFile == File(DTxt, PngMime, 1, "good")
EarlierRecord == ImageRecord(EarlierFile, DataUrl(EarlierFile))

InitOverlap ==
    /\ files \in {<<>>, <<EarlierRecord>>}
    /\ selectedFileIndices = {}
    /\ error = Null
    /\ calls = [c \in CallIds |-> IdleCall]
    /\ removals = 0
    /\ recon = NoRecon
    /\ pdf = NoPdf
    /\ pptx = NoPptx
    /\ chat = NoChat

\* the first batch is chosen; the second is chosen while the first invocation
\* is suspended; the reads and extractions settle in any order
NextOverlap ==
    \/ HandleFileChange(1, OverlapFiles, MaxOverlapBatch) /\ UNCHANGED <<pdfVars, otherVars>>
    \/ /\ calls[1].pc = "await"
       /\ HandleFileChange(2, OverlapFiles, MaxOverlapBatch)
       /\ UNCHANGED <<pdfVars, otherVars>>
    \/ \E c \in {1, 2} : CallStep(c) /\ UNCHANGED <<pdfVars, otherVars>>

SpecOverlap == InitOverlap /\ [][NextOverlap]_vars

BothReturned == calls[1].pc = "done" /\ calls[2].pc = "done"

\* s holds every element of t, in the order of t and side by side
Contiguous(s, t) ==
    \E k \in 0..(Len(s) - Len(t)) : SubSeq(s, k + 1, k + Len(t)) = t

MaxFiles == 3

\* the records the ingestions left, no two alike
IngestedRecords ==
    { ImageRecord(f, DataUrl(f)) : f \in {File(APng, PngMime, 1, "good"), EarlierFile} }
    \cup { PdfRecord(f, PdfText(f)) : f \in {File(BPdf, NoMime, 1, "good")} }
    \cup { PptxRecord(f, PptxText(f)) : f \in {File(CPptx, NoMime, 1, "good")} }

InitSelect ==
    /\ files \in { fs \in UNION { [1..n -> IngestedRecords] : n \in 0..MaxFiles } :
                      \A i, j \in DOMAIN fs : fs[i] = fs[j] => i = j }
    /\ selectedFileIndices = {}
    /\ error = Null
    /\ calls = [c \in CallIds |-> IdleCall]
    /\ removals = 0
    /\ recon = NoRecon
    /\ pdf = NoPdf
    /\ pptx = NoPptx
    /\ chat = NoChat

\* toggleFileSelection(index), index being a position of the rendered list
ToggleFileSelection(index) ==
    /\ index \in 0..(Len(files) - 1)
    /\ selectedFileIndices' = IF index \in selectedFileIndices
                              THEN selectedFileIndices \ {index}
                              ELSE selectedFileIndices \cup {index}
    /\ UNCHANGED <<files, error, calls, removals>>

\* selectAllFiles
SelectAllFiles ==
    /\ selectedFileIndices' = { i - 1 : i \in 1..Len(files) }
    /\ UNCHANGED <<files, error, calls, removals>>

\* handleBulkFastQuestion: files.filter((_, i) => selectedFileIndices.has(i))
RECURSIVE FilterSelected(_, _, _)
FilterSelected(fs, selected, i) ==
    IF i > Len(fs) THEN <<>>
    ELSE (IF (i - 1) \in selected THEN <<fs[i]>> ELSE <<>>)
         \o FilterSelected(fs, selected, i + 1)

selectedFiles(fs, selected) == FilterSelected(fs, selected, 1)

NextSelect ==
    \/ \E index \in 0..(MaxFiles - 1) :
          ToggleFileSelection(index) /\ UNCHANGED <<pdfVars, otherVars>>
    \/ SelectAllFiles /\ UNCHANGED <<pdfVars, otherVars>>
    \/ \E index \in 0..(MaxFiles - 1) : RemoveFile(index) /\ UNCHANGED <<pdfVars, otherVars>>

SpecSelect == InitSelect /\ [][NextSelect]_vars

\* the file of record r is selected, in files fs with selection s
IsSelected(fs, s, r) == \E i \in 1..Len(fs) : fs[i] = r /\ (i - 1) \in s

\* a file was removed in this step
FileRemoved == Len(files') = Len(files) - 1

(* C29: removeFile(i) removes file i only and leaves the selection of     *)
(* every other file as it was: a file that was selected is still          *)
(* selected, one that was not is still not; so every index of             *)
(* selectedFileIndices refers to an existing file, and the size of        *)
(* selectedFileIndices is the number of files handleBulkFastQuestion      *)
(* would send.                                                            *)
C29_SelectionFollowsFiles ==
    [][ /\ FileRemoved =>
              \A i \in 1..Len(files') :
                  IsSelected(files', selectedFileIndices', files'[i])
                      <=> IsSelected(files, selectedFileIndices, files'[i])
        /\ \A i \in selectedFileIndices' : i < Len(files')
        /\ Cardinality(selectedFileIndices')
              = Len(selectedFiles(files', selectedFileIndices'))
      ]_vars

(* ====================================================================== *)
(*                           the chat assistant                           *)
(* ====================================================================== *)
(* handleSendChatMessage streams a reply into chatMessages while          *)
(* handleAnalyze and loadFromHistory install a new session and its        *)
(* greeting.  chat holds the React state of the assistant and the         *)
(* position of the one send and the one analysis that can be in flight.   *)

(* ----------------------------- bounds --------------------------------- *)
\* messages sent by the user
MaxSends == 1
\* chunks of one streamed reply
MaxChunks == 2
\* sessions installed by handleAnalyze and loadFromHistory
MaxSessions == 2
\* entries of savedHistory
MaxHistory == 1

LoadedGreeting == <<"Analysis loaded. How can I help you explore these research gaps?">>
CompleteGreeting == <<"Analysis complete! I've synthesized the research landscape, including specific research gaps and novel questions. What would you like to explore first?">>
ChatErrorMsg == <<"I'm sorry, I encountered an error. Please try asking again.">>
AnalysisFailedMsg == <<"Analysis failed. Large files might exceed AI processing limits.">>

\* the analyses analyzeLiterature resolves with
AnalysisResults == {"landscape1", "landscape2"}

\* what the user types into the two inputs
TypedTexts == { <<>>, <<" ">>, <<"q">> }

\* the chunks of a reply: a falsy chunk, a chunk without text, chunks with text
StreamChunks == {Null} \cup { [null |-> FALSE, text |-> t] : t \in { <<>>, <<"a">>, <<"b">> } }

\* result and chatSession before the first analysis
NullResult == "null"
NullSession == [analysis |-> NullResult]

startAnalysisChat(result) == [analysis |-> result]

ChatMessage(role, text) == [role |-> role, text |-> text]

InitChat ==
    /\ files \in { <<>>, <<EarlierRecord>> }
    /\ selectedFileIndices = {}
    /\ error = Null
    /\ calls = [c \in CallIds |-> IdleCall]
    /\ removals = 0
    /\ recon = NoRecon
    /\ pdf = NoPdf
    /\ pptx = NoPptx
    /\ \E typed \in TypedTexts, history \in { <<>>, <<"landscape1">> } :
          chat = [ pc |-> "idle",
                   inputText |-> typed,
                   isAnalyzing |-> FALSE,
                   analyze |-> "idle",
                   result |-> NullResult,
                   savedHistory |-> history,
                   isChatOpen |-> FALSE,
                   chatSession |-> NullSession,
                   chatMessages |-> <<>>,
                   currentChatInput |-> <<>>,
                   isChatTyping |-> FALSE,
                   aiResponseText |-> <<>>,
                   sends |-> 0,
                   chunks |-> 0,
                   sessions |-> 0 ]

\* the floating button of the chat panel, rendered while there is a result,
\* and the close button of the open panel
ToggleChat ==
    /\ chat.result # NullResult \/ chat.isChatOpen
    /\ chat' = [chat EXCEPT !.isChatOpen = ~chat.isChatOpen]

\* onChange of the input of the chat panel
SetCurrentChatInput(text) ==
    /\ chat.isChatOpen
    /\ chat' = [chat EXCEPT !.currentChatInput = text]

\* saveToHistory
SaveToHistory ==
    /\ chat.result # NullResult
    /\ Len(chat.savedHistory) < MaxHistory
    /\ chat' = [chat EXCEPT !.savedHistory = <<chat.result>> \o chat.savedHistory]

\* loadFromHistory(entry)
LoadFromHistory(entry) ==
    /\ chat.sessions < MaxSessions
    /\ entry \in 1..Len(chat.savedHistory)
    /\ chat' = [chat EXCEPT
                  !.result = chat.savedHistory[entry],
                  !.chatSession = startAnalysisChat(chat.savedHistory[entry]),
                  !.chatMessages = <<ChatMessage("ai", LoadedGreeting)>>,
                  !.sessions = chat.sessions + 1]
    /\ UNCHANGED error

\* handleAnalyze up to its await; one analysis is in flight at a time
HandleAnalyze ==
    /\ chat.analyze = "idle"
    /\ chat.sessions < MaxSessions
    /\ ~(trim(chat.inputText) = <<>> /\ Len(files) = 0)
    /\ chat' = [chat EXCEPT !.isAnalyzing = TRUE, !.result = NullResult, !.analyze = "await"]
    /\ error' = Null

\* analyzeLiterature resolved with data
AnalyzeResolved(data) ==
    /\ chat.analyze = "await"
    /\ chat' = [chat EXCEPT
                  !.result = data,
                  !.chatSession = startAnalysisChat(data),
                  !.chatMessages = <<ChatMessage("ai", CompleteGreeting)>>,
                  !.isAnalyzing = FALSE,
                  !.analyze = "idle",
                  !.sessions = chat.sessions + 1]
    /\ UNCHANGED error

\* analyzeLiterature rejected
AnalyzeRejected ==
    /\ chat.analyze = "await"
    /\ chat' = [chat EXCEPT !.isAnalyzing = FALSE, !.analyze = "idle"]
    /\ error' = Message(AnalysisFailedMsg)

\* handleSendChatMessage up to the await of sendMessageStream
HandleSendChatMessage ==
    /\ chat.isChatOpen
    /\ chat.sends < MaxSends
    /\ ~(trim(chat.currentChatInput) = <<>> \/ chat.chatSession = NullSession \/ chat.isChatTyping)
    /\ chat' = [chat EXCEPT
                  !.currentChatInput = <<>>,
                  !.chatMessages = Append(chat.chatMessages, ChatMessage("user", chat.currentChatInput)),
                  !.isChatTyping = TRUE,
                  !.pc = "awaitStream",
                  !.sends = chat.sends + 1]
    /\ UNCHANGED error

\* sendMessageStream resolved: the message of the reply is created
StreamOpened ==
    /\ chat.pc = "awaitStream"
    /\ chat' = [chat EXCEPT
                  !.aiResponseText = <<>>,
                  !.chatMessages = Append(chat.chatMessages, ChatMessage("ai", <<>>)),
                  !.chunks = 0,
                  !.pc = "streaming"]
    /\ UNCHANGED error

\* the text of the last message becomes text
SetLastText(messages, text) ==
    [i \in 1..Len(messages) |->
        IF i = Len(messages) THEN ChatMessage(messages[i].role, text) ELSE messages[i]]

\* one chunk of the reply arrives
ChunkReceived(chunk) ==
    /\ chat.pc = "streaming"
    /\ chat.chunks < MaxChunks
    /\ IF chunk = Null
       THEN chat' = [chat EXCEPT !.chunks = chat.chunks + 1]
       ELSE LET aiResponseText == chat.aiResponseText \o chunk.text
            IN  chat' = [chat EXCEPT
                           !.aiResponseText = aiResponseText,
                           !.chatMessages = SetLastText(chat.chatMessages, aiResponseText),
                           !.chunks = chat.chunks + 1]
    /\ UNCHANGED error

\* the stream ended
StreamEnded ==
    /\ chat.pc = "streaming"
    /\ chat' = [chat EXCEPT !.isChatTyping = FALSE, !.pc = "idle"]
    /\ UNCHANGED error

\* sendMessageStream rejected, or the stream threw between two chunks
StreamFailed ==
    /\ chat.pc \in {"awaitStream", "streaming"}
    /\ chat' = [chat EXCEPT
                  !.chatMessages = Append(chat.chatMessages, ChatMessage("ai", ChatErrorMsg)),
                  !.isChatTyping = FALSE,
                  !.pc = "idle"]
    /\ UNCHANGED error

chatFrame == <<files, selectedFileIndices, calls, removals, recon, pdf, pptx>>

NextChat ==
    \/ ToggleChat /\ UNCHANGED <<error, chatFrame>>
    \/ \E text \in TypedTexts : SetCurrentChatInput(text) /\ UNCHANGED <<error, chatFrame>>
    \/ SaveToHistory /\ UNCHANGED <<error, chatFrame>>
    \/ \E entry \in 1..MaxHistory : LoadFromHistory(entry) /\ UNCHANGED chatFrame
    \/ HandleAnalyze /\ UNCHANGED chatFrame
    \/ \E data \in AnalysisResults : AnalyzeResolved(data) /\ UNCHANGED chatFrame
    \/ AnalyzeRejected /\ UNCHANGED chatFrame
    \/ HandleSendChatMessage /\ UNCHANGED chatFrame
    \/ StreamOpened /\ UNCHANGED chatFrame
    \/ \E chunk \in StreamChunks : ChunkReceived(chunk) /\ UNCHANGED chatFrame
    \/ StreamEnded /\ UNCHANGED chatFrame
    \/ StreamFailed /\ UNCHANGED chatFrame

SpecChat == InitChat /\ [][NextChat]_vars

Greetings == { LoadedGreeting, CompleteGreeting }

(* C30: the chunks of a streamed reply only modify the message that       *)
(* handleSendChatMessage created for that send: when handleAnalyze or     *)
(* loadFromHistory reset the messages while a reply is streaming, the     *)
(* first message of the new session keeps the text of its greeting.       *)
C30_GreetingNotOverwritten ==
    chat.chatMessages # <<>> => chat.chatMessages[1].text \in Greetings

====
